---- MODULE Spec2Model ----
(***************************************************************************)
(* A model of epub2text's EPUBParser (src/epub2text/parser.py): the        *)
(* navigation-ordered content extraction engine, its content slicer, the   *)
(* chapter tree builder, the page builder and the page extraction.         *)
(*                                                                         *)
(* Representation.  A text (raw markup, cleaned text, a title, a page      *)
(* label) is a sequence of one-character strings; an anchor tag            *)
(* <a id="f"> inside raw markup is the single token "#f", and a literal    *)
(* of a format string is a single token ("<<PAGE: ").  Document names,     *)
(* navigation targets (src) and chapter ids are strings.  A Python dict is *)
(* a function whose DOMAIN is the set of its keys.                         *)
(***************************************************************************)
EXTENDS Integers, Sequences, FiniteSets, TLC

VARIABLES
    book,                    \* the opened container (self.book), read-only
    doc_content,             \* self.doc_content: document name -> raw markup
    content_texts,           \* self.content_texts: src -> cleaned text
    content_lengths,         \* self.content_lengths: src -> char count
    processed_nav_structure, \* self.processed_nav_structure: navigation tree
    _nav_processed,          \* self._nav_processed
    _page_list_nav,          \* self._page_list_nav
    _page_list_nav_checked,  \* self._page_list_nav_checked
    _upper_title_cache,      \* self._upper_title_cache
    files,                   \* the bookmark file and its backup, on disk
    _bookmarks,              \* BookmarkManager._bookmarks: path -> bookmark
    ret                      \* the last call made on the parser and its result

vars == <<book, doc_content, content_texts, content_lengths,
          processed_nav_structure, _nav_processed, _page_list_nav,
          _page_list_nav_checked, _upper_title_cache, files, _bookmarks, ret>>

----------------------------------------------------------------------------
(* Bounds of the model.                                                    *)

\* Number of documents a container may hold.
NumDocs == 3
\* Longest raw markup of a document in the slicer's specification.
MaxDocLen == 2
\* The largest page size.
MaxPageSize == 4
\* Sentences of a document.
MaxSentences == 3
\* Entries of the table of contents of a book of sentences.
MaxChapters == 2
\* Entries of a page list.
MaxPageEntries == 2

----------------------------------------------------------------------------
(* Python values and built-ins.                                            *)

\* None, for a document name, a src or an id.
None == "None"
\* None, for a position or an index.
NoneInt == -1

Min(a, b) == IF a <= b THEN a ELSE b

\* dict.get(key, default)
Get(d, key, default) == IF key \in DOMAIN d THEN d[key] ELSE default

\* s[a:b] for 0 <= a, 0 <= b
PySlice(s, a, b) ==
    LET lo == Min(a, Len(s))
        hi == Min(b, Len(s))
    IN IF hi <= lo THEN <<>> ELSE SubSeq(s, lo + 1, hi)

\* s[a:]
PyFrom(s, a) == PySlice(s, a, Len(s))

\* s[:b]
PyTo(s, b) == PySlice(s, 0, b)

\* The empty dict.
EmptyDict == <<>>

\* The value of an expression, computed once: the element of {value}.
Only(singleton) == CHOOSE x \in singleton : TRUE

\* The name of the k-th document of a container.
DocName(k) == "d" \o ToString(k)

\* Upper-case letters used as document text.
Letters == <<"A", "B", "C", "D", "E", "F", "G", "H", "I", "J", "K", "L">>

\* The i-th character of the k-th document: no character occurs in two
\* places of a book, so a lost, duplicated or misplaced piece shows.
DocChar(k, i) == Letters[(((k - 1) * 3 + (i - 1)) % Len(Letters)) + 1]

\* The k-th document's markup when it is n characters long.
DocText(k, n) == [i \in 1..n |-> DocChar(k, i)]

----------------------------------------------------------------------------
(* Content Slicer.                                                         *)

\* EPUBParser._get_spine_index: list.index, None when missing.
_get_spine_index(doc_href, spine_docs) ==
    IF \E i \in 1..Len(spine_docs) : spine_docs[i] = doc_href
    THEN (CHOOSE i \in 1..Len(spine_docs) :
             /\ spine_docs[i] = doc_href
             /\ \A j \in 1..(i - 1) : spine_docs[j] # doc_href) - 1
    ELSE NoneInt

\* slice_html += self.doc_content.get(doc, "") for each doc of docs.
RECURSIVE ConcatDocs(_, _)
ConcatDocs(self_doc_content, docs) ==
    IF docs = <<>> THEN <<>>
    ELSE Get(self_doc_content, Head(docs), <<>>)
             \o ConcatDocs(self_doc_content, Tail(docs))

\* EPUBParser._slice_spine_html
_slice_spine_html(self_doc_content, current_doc, current_pos, next_doc, next_pos, spine_docs, allow_wraparound) ==
    LET current_doc_html == Get(self_doc_content, current_doc, <<>>)
        idx_current == _get_spine_index(current_doc, spine_docs)
        idx_next == _get_spine_index(next_doc, spine_docs)
        docs_between ==
            IF idx_current < idx_next
            THEN PySlice(spine_docs, idx_current + 1, idx_next)
            ELSE IF allow_wraparound /\ idx_current > idx_next
            THEN PyFrom(spine_docs, idx_current + 1) \o PyTo(spine_docs, idx_next)
            ELSE <<>>
        next_doc_html == Get(self_doc_content, next_doc, <<>>)
    IN IF current_doc_html = <<>> THEN <<>>
       ELSE IF next_doc = None
       THEN IF idx_current = NoneInt
            THEN PyFrom(current_doc_html, current_pos)
            ELSE PyFrom(current_doc_html, current_pos)
                     \o ConcatDocs(self_doc_content,
                                   PyFrom(spine_docs, idx_current + 1))
       ELSE IF current_doc = next_doc
       THEN PySlice(current_doc_html, current_pos, next_pos)
       ELSE IF idx_current = NoneInt \/ idx_next = NoneInt
       THEN PyFrom(current_doc_html, current_pos)
       ELSE PyFrom(current_doc_html, current_pos)
                \o ConcatDocs(self_doc_content, docs_between)
                \o PyTo(next_doc_html,
                        IF next_pos = NoneInt THEN 0 ELSE next_pos)

----------------------------------------------------------------------------
(* The slicer's specification: a parser whose documents are cached, as in  *)
(* tests/test_parser_spine_slice.py, and calls of _slice_spine_html.       *)

\* The container's spine when it holds n documents.
SpineOf(n) == [i \in 1..n |-> DocName(i)]

\* None where a (page_list_nav, nav_type) pair is expected.
NoPageListNav == [found |-> FALSE, page_list |-> <<>>, nav_type |-> None]

\* None where the set of upper-case titles is expected.
NoTitleCache == [cached |-> FALSE, titles |-> {}]

\* A file that does not exist.
Missing == [exists |-> FALSE]

\* A directory without a bookmark file and without a backup.
NoFiles == [bookmark_file |-> Missing, backup |-> Missing]

\* A parser as EPUBParser.__init__ leaves it, on container b.
Constructed(b) ==
    /\ book = b
    /\ doc_content = EmptyDict
    /\ content_texts = EmptyDict
    /\ content_lengths = EmptyDict
    /\ processed_nav_structure = <<>>
    /\ _nav_processed = FALSE
    /\ _page_list_nav = NoPageListNav
    /\ _page_list_nav_checked = FALSE
    /\ _upper_title_cache = NoTitleCache
    /\ files = NoFiles
    /\ _bookmarks = EmptyDict
    /\ ret = [op |-> "__init__"]

SliceInit ==
    \E n \in 1..NumDocs :
    \E lens \in [1..NumDocs -> 0..MaxDocLen] :
        /\ book = [spine |-> SpineOf(n)]
        /\ doc_content = [d \in {DocName(k) : k \in 1..NumDocs}
                            |-> DocText(CHOOSE k \in 1..NumDocs : DocName(k) = d,
                                        lens[CHOOSE k \in 1..NumDocs : DocName(k) = d])]
        /\ content_texts = EmptyDict
        /\ content_lengths = EmptyDict
        /\ processed_nav_structure = <<>>
        /\ _nav_processed = FALSE
        /\ _page_list_nav = NoPageListNav
        /\ _page_list_nav_checked = FALSE
        /\ _upper_title_cache = NoTitleCache
        /\ files = NoFiles
        /\ _bookmarks = EmptyDict
        /\ ret = [op |-> "__init__"]

\* A call parser._slice_spine_html(...) on the cached documents.
SliceSpineHtmlCall ==
    /\ ret.op = "__init__"
    /\ \E current_doc \in DOMAIN doc_content :
       \E current_pos \in 0..MaxDocLen :
       \E next_doc \in DOMAIN doc_content \cup {None} :
       \E next_pos \in 0..MaxDocLen :
       \E allow_wraparound \in BOOLEAN :
        /\ ret' = [op |-> "_slice_spine_html",
                   current_doc |-> current_doc,
                   current_pos |-> current_pos,
                   next_doc |-> next_doc,
                   next_pos |-> IF next_doc = None THEN NoneInt ELSE next_pos,
                   allow_wraparound |-> allow_wraparound,
                   val |-> _slice_spine_html(
                               doc_content, current_doc, current_pos, next_doc,
                               IF next_doc = None THEN NoneInt ELSE next_pos,
                               book.spine, allow_wraparound)]
        /\ UNCHANGED <<book, doc_content, content_texts, content_lengths,
                       processed_nav_structure, _nav_processed,
                       _page_list_nav, _page_list_nav_checked,
                       _upper_title_cache, files, _bookmarks>>

SliceNext == SliceSpineHtmlCall

SpecSlice == SliceInit /\ [][SliceNext]_vars

\* The call recorded in ret is a slice between two documents of the spine.
SliceCallInSpine ==
    /\ ret.op = "_slice_spine_html"
    /\ ret.next_doc # None
    /\ _get_spine_index(ret.current_doc, book.spine) # NoneInt
    /\ _get_spine_index(ret.next_doc, book.spine) # NoneInt

\* The full content of the spine documents whose 0-based index i has
\* lo <= i < hi, in spine order.
RECURSIVE SpineRange(_, _)
SpineRange(lo, hi) ==
    IF hi <= lo THEN <<>>
    ELSE SpineRange(lo, hi - 1) \o Get(doc_content, book.spine[hi], <<>>)

\* C2: for doc_A at or before doc_B in spine order the slice is
\* doc_A[pos_A:pos_B] when doc_A = doc_B, and otherwise doc_A[pos_A:], then
\* every spine document strictly between them in full, then doc_B[:pos_B],
\* whatever allow_wraparound is.
C2_SliceForward ==
    (/\ SliceCallInSpine
     /\ _get_spine_index(ret.current_doc, book.spine)
            <= _get_spine_index(ret.next_doc, book.spine))
    => ret.val =
         IF ret.current_doc = ret.next_doc
         THEN PySlice(doc_content[ret.current_doc], ret.current_pos, ret.next_pos)
         ELSE PyFrom(doc_content[ret.current_doc], ret.current_pos)
                  \o SpineRange(_get_spine_index(ret.current_doc, book.spine) + 1,
                                _get_spine_index(ret.next_doc, book.spine))
                  \o PyTo(doc_content[ret.next_doc], ret.next_pos)

\* C3: with doc_B null the slice is doc_A[pos_A:] followed by every spine
\* document strictly after doc_A in full.
C3_SliceToEnd ==
    (/\ ret.op = "_slice_spine_html"
     /\ ret.next_doc = None
     /\ _get_spine_index(ret.current_doc, book.spine) # NoneInt)
    => ret.val =
         PyFrom(doc_content[ret.current_doc], ret.current_pos)
             \o SpineRange(_get_spine_index(ret.current_doc, book.spine) + 1,
                           Len(book.spine))

\* C4: with doc_A after doc_B in spine order and allow_wraparound false the
\* slice is the empty string.
C4_NoWraparoundEmpty ==
    (/\ SliceCallInSpine
     /\ _get_spine_index(ret.current_doc, book.spine)
            > _get_spine_index(ret.next_doc, book.spine)
     /\ ~ret.allow_wraparound)
    => ret.val = <<>>

----------------------------------------------------------------------------
(* Text helpers: str.strip, and the collaborators that turn markup into    *)
(* text.                                                                   *)

\* Characters str.strip() removes.
Whitespace == {" ", "\n", "\t"}

\* str.lstrip()
RECURSIVE LStrip(_)
LStrip(s) ==
    IF s = <<>> THEN <<>>
    ELSE IF Head(s) \in Whitespace THEN LStrip(Tail(s)) ELSE s

\* str.rstrip()
RECURSIVE RStrip(_)
RStrip(s) ==
    IF s = <<>> THEN <<>>
    ELSE IF s[Len(s)] \in Whitespace THEN RStrip(SubSeq(s, 1, Len(s) - 1)) ELSE s

\* str.strip()
Strip(s) == RStrip(LStrip(s))

\* Fragment identifiers an anchor may bear.
Fragments == {"a", "b"}

\* The token of the opening tag bearing id = fragment.
AnchorTag(fragment) == "#" \o fragment

\* Tokens of raw markup that are tags.
TagTokens == {AnchorTag(f) : f \in Fragments}

\* BeautifulSoup(html).get_text(): the markup without its tags.
RECURSIVE get_text(_)
get_text(html) ==
    IF html = <<>> THEN <<>>
    ELSE IF Head(html) \in TagTokens THEN get_text(Tail(html))
    ELSE <<Head(html)>> \o get_text(Tail(html))

\* cleaner.clean_text: the markup cleaner, taken as the identity on text.
clean_text(text) == text

\* cleaner.calculate_text_length: the count of the cleaned text.
calculate_text_length(text) == Len(text)

----------------------------------------------------------------------------
(* Navigation targets.  A src is "doc" or "doc#fragment".                  *)

\* A document name no spine holds.
NotInSpine == "dz"

\* The name of the k-th document with a percent-encoded space in it, and
\* the same name decoded.
EncodedName(k) == DocName(k) \o "%20" \o "x"
DecodedName(k) == DocName(k) \o " x"

\* Document names a navigation link may name.
LinkDocs ==
    {DocName(k) : k \in 1..NumDocs}
        \cup {NotInSpine, EncodedName(1), DecodedName(1)}

\* "#" in src: a document name holds none.
HasFragment(src) ==
    /\ src \notin LinkDocs
    /\ \E d \in LinkDocs : \E f \in Fragments : src = d \o "#" \o f

\* src.split("#", 1)[0] if "#" in src else src
BaseHref(src) ==
    IF HasFragment(src)
    THEN CHOOSE d \in LinkDocs : \E f \in Fragments : src = d \o "#" \o f
    ELSE src

\* src.split("#", 1)[1] if "#" in src else None
FragmentOf(src) ==
    IF HasFragment(src)
    THEN CHOOSE f \in Fragments : \E d \in LinkDocs : src = d \o "#" \o f
    ELSE None

\* urllib.parse.unquote on a document name: "%20" decodes to a space.
unquote(href) ==
    IF \E k \in 1..NumDocs : href = EncodedName(k)
    THEN DecodedName(CHOOSE k \in 1..NumDocs : href = EncodedName(k))
    ELSE href

\* os.path.basename(href).lower()
BaseNameLower(href) ==
    IF \E d \in LinkDocs : href = "OEBPS/" \o d
    THEN CHOOSE d \in LinkDocs : href = "OEBPS/" \o d
    ELSE href

\* The keys of doc_order, in insertion (spine) order, each once.
RECURSIVE DocOrderKeys(_)
DocOrderKeys(spine_docs) ==
    IF spine_docs = <<>> THEN <<>>
    ELSE LET front == DocOrderKeys(SubSeq(spine_docs, 1, Len(spine_docs) - 1))
             last == spine_docs[Len(spine_docs)]
         IN IF \E i \in 1..Len(front) : front[i] = last
            THEN front ELSE Append(front, last)

\* doc_order = {href: i for i, href in enumerate(spine_docs)}
DocOrder(spine_docs) ==
    [href \in {spine_docs[i] : i \in 1..Len(spine_docs)} |->
        (CHOOSE i \in 1..Len(spine_docs) :
            /\ spine_docs[i] = href
            /\ \A j \in (i + 1)..Len(spine_docs) : spine_docs[j] # href) - 1]

\* doc_order_decoded = {unquote(href): i for href, i in doc_order.items()}
DocOrderDecoded(spine_docs) ==
    LET keys == DocOrderKeys(spine_docs)
        doc_order == DocOrder(spine_docs)
    IN [dec \in {unquote(keys[i]) : i \in 1..Len(keys)} |->
           doc_order[keys[CHOOSE i \in 1..Len(keys) :
                            /\ unquote(keys[i]) = dec
                            /\ \A j \in (i + 1)..Len(keys) : unquote(keys[j]) # dec]]]

\* s filtered to the elements whose lower-cased base name is base_name.
RECURSIVE SameBaseName(_, _)
SameBaseName(keys, base_name) ==
    IF keys = <<>> THEN <<>>
    ELSE (IF BaseNameLower(Head(keys)) = base_name THEN <<Head(keys)>> ELSE <<>>)
             \o SameBaseName(Tail(keys), base_name)

\* The first candidate that is a key of doc_order or of doc_order_decoded,
\* with its index: (None, None) when there is none.
RECURSIVE FirstCandidate(_, _, _)
FirstCandidate(candidates, doc_order, doc_order_decoded) ==
    IF candidates = <<>> THEN [doc_key |-> None, doc_idx |-> NoneInt]
    ELSE IF Head(candidates) \in DOMAIN doc_order
    THEN [doc_key |-> Head(candidates), doc_idx |-> doc_order[Head(candidates)]]
    ELSE IF Head(candidates) \in DOMAIN doc_order_decoded
    THEN [doc_key |-> Head(candidates),
          doc_idx |-> doc_order_decoded[Head(candidates)]]
    ELSE FirstCandidate(Tail(candidates), doc_order, doc_order_decoded)

\* EPUBParser._find_doc_key
_find_doc_key(base_href, spine_docs) ==
    LET doc_order == DocOrder(spine_docs)
        doc_order_decoded == DocOrderDecoded(spine_docs)
        keys == DocOrderKeys(spine_docs)
        decoded_keys == DocOrderKeys([i \in 1..Len(keys) |-> unquote(keys[i])])
        candidates == <<base_href, unquote(base_href)>>
                          \o SameBaseName(keys \o decoded_keys,
                                          BaseNameLower(base_href))
    IN FirstCandidate(candidates, doc_order, doc_order_decoded)

----------------------------------------------------------------------------
(* Position Locator.                                                       *)

\* EPUBParser._find_position_robust: the offset of the first tag bearing
\* the fragment id, 0 when the document is not cached, when there is no
\* fragment and when no tag bears it.  The three searches of the code look
\* for the start of that tag; a tag being one token, they agree.
_find_position_robust(self_doc_content, doc_href, fragment_id) ==
    IF doc_href \notin DOMAIN self_doc_content THEN 0
    ELSE IF fragment_id = None THEN 0
    ELSE LET html_content == self_doc_content[doc_href]
             hits == {i \in 1..Len(html_content) :
                         html_content[i] = AnchorTag(fragment_id)}
         IN IF hits = {} THEN 0
            ELSE (CHOOSE i \in hits : \A j \in hits : i <= j) - 1

----------------------------------------------------------------------------
(* Navigation Resolver: the parsed navigation document.                    *)
(*                                                                         *)
(* An <li> of a NAV HTML list is a record                                  *)
(*   [has_href, href, link_text, has_span, span_text, li_text, children]   *)
(* (has_href: a direct <a> child with an href attribute; children: the     *)
(* <li> of its direct <ol> children), a navPoint of an NCX is              *)
(*   [has_label, label_text, has_src, src, children].                      *)
(* A node of the navigation tree is [title, src, children, has_content],   *)
(* an ordered entry is [src, title, doc_href, position, doc_order].        *)

\* The default title of an entry without one.
UntitledSection == <<"Untitled Section">>

\* bool(s) for a str or None that names a src.
Truthy(src) == src # None /\ src # ""

\* x or default, for a text
OrText(text, default) == IF text # <<>> THEN text ELSE default

\* The title _parse_html_nav_li gives an <li>.
HtmlLiTitle(li_element) ==
    IF li_element.has_href
    THEN LET t1 == OrText(li_element.link_text, UntitledSection)
             t2 == IF Strip(t1) = <<>> /\ li_element.has_span
                   THEN OrText(li_element.span_text, t1) ELSE t1
         IN IF Strip(t2) = <<>> THEN OrText(Strip(li_element.li_text), t2) ELSE t2
    ELSE IF li_element.has_span
    THEN LET t1 == OrText(li_element.span_text, UntitledSection)
         IN IF Strip(t1) = <<>> THEN OrText(Strip(li_element.li_text), t1) ELSE t1
    ELSE OrText(Strip(li_element.li_text), UntitledSection)

\* The ordered entry of a src that resolved to doc_key, doc_idx.
EntryData(self_doc_content, src, title, found) ==
    [src |-> src,
     title |-> title,
     doc_href |-> found.doc_key,
     position |-> _find_position_robust(self_doc_content, found.doc_key,
                                        FragmentOf(src)),
     doc_order |-> found.doc_idx]

RECURSIVE _parse_html_nav_li(_, _, _, _, _)
RECURSIVE ParseHtmlChildren(_, _, _, _, _)

\* for child_li in ...: self._parse_html_nav_li(child_li, ordered_entries,
\* doc_order, doc_order_decoded, tree_structure_list)
ParseHtmlChildren(self_doc_content, lis, ordered_entries, spine_docs, tree_structure_list) ==
    IF lis = <<>>
    THEN [ordered_entries |-> ordered_entries,
          tree_structure_list |-> tree_structure_list]
    ELSE LET r == _parse_html_nav_li(self_doc_content, Head(lis), ordered_entries,
                                     spine_docs, tree_structure_list)
         IN ParseHtmlChildren(self_doc_content, Tail(lis), r.ordered_entries,
                              spine_docs, r.tree_structure_list)

\* EPUBParser._parse_html_nav_li: the two lists after the call.
_parse_html_nav_li(self_doc_content, li_element, ordered_entries, spine_docs, tree_structure_list) ==
    LET src == IF li_element.has_href THEN li_element.href ELSE None
        title == HtmlLiTitle(li_element)
        found == _find_doc_key(BaseHref(src), spine_docs)
        has_content == Truthy(src) /\ found.doc_key # None
        entries == IF has_content
                   THEN Append(ordered_entries,
                               EntryData(self_doc_content, src, title, found))
                   ELSE ordered_entries
        sub == ParseHtmlChildren(self_doc_content, li_element.children, entries,
                                 spine_docs, <<>>)
    IN [ordered_entries |-> sub.ordered_entries,
        tree_structure_list |->
            Append(tree_structure_list,
                   [title |-> title, src |-> src,
                    children |-> sub.tree_structure_list,
                    has_content |-> has_content])]

RECURSIVE _parse_ncx_navpoint(_, _, _, _, _)
RECURSIVE ParseNcxChildren(_, _, _, _, _)

\* for child_np in child_navpoints: self._parse_ncx_navpoint(...)
ParseNcxChildren(self_doc_content, nav_points, ordered_entries, spine_docs, tree_structure_list) ==
    IF nav_points = <<>>
    THEN [ordered_entries |-> ordered_entries,
          tree_structure_list |-> tree_structure_list]
    ELSE LET r == _parse_ncx_navpoint(self_doc_content, Head(nav_points),
                                      ordered_entries, spine_docs,
                                      tree_structure_list)
         IN ParseNcxChildren(self_doc_content, Tail(nav_points), r.ordered_entries,
                             spine_docs, r.tree_structure_list)

\* EPUBParser._parse_ncx_navpoint: the two lists after the call.
_parse_ncx_navpoint(self_doc_content, nav_point, ordered_entries, spine_docs, tree_structure_list) ==
    LET title == IF nav_point.has_label THEN nav_point.label_text
                 ELSE UntitledSection
        src == IF nav_point.has_src THEN nav_point.src ELSE None
        found == _find_doc_key(BaseHref(src), spine_docs)
        has_content == Truthy(src) /\ found.doc_key # None
        entries == IF has_content
                   THEN Append(ordered_entries,
                               EntryData(self_doc_content, src, title, found))
                   ELSE ordered_entries
        sub == ParseNcxChildren(self_doc_content, nav_point.children, entries,
                                spine_docs, <<>>)
    IN [ordered_entries |-> sub.ordered_entries,
        tree_structure_list |->
            IF title # <<>> /\ (has_content \/ sub.tree_structure_list # <<>>)
            THEN Append(tree_structure_list,
                        [title |-> title, src |-> src,
                         children |-> sub.tree_structure_list,
                         has_content |-> has_content])
            ELSE tree_structure_list]

----------------------------------------------------------------------------
(* Global ordering and slicing of the navigation entries.                  *)

\* (a.doc_order, a.position) <= (b.doc_order, b.position)
KeyLE(a, b) ==
    \/ a.doc_order < b.doc_order
    \/ a.doc_order = b.doc_order /\ a.position <= b.position

\* sorted with e put after every element whose key is at most e's.
RECURSIVE InsertSorted(_, _)
InsertSorted(sorted, e) ==
    IF sorted = <<>> THEN <<e>>
    ELSE IF KeyLE(sorted[Len(sorted)], e) THEN Append(sorted, e)
    ELSE Append(InsertSorted(SubSeq(sorted, 1, Len(sorted) - 1), e),
                sorted[Len(sorted)])

\* list.sort(key=lambda x: (x["doc_order"], x["position"])): stable.
RECURSIVE SortByPosition(_)
SortByPosition(entries) ==
    IF entries = <<>> THEN <<>>
    ELSE InsertSorted(SortByPosition(SubSeq(entries, 1, Len(entries) - 1)),
                      entries[Len(entries)])

\* The text _process_epub_content_nav stores for the i-th ordered entry.
EntryText(self_doc_content, ordered_nav_entries, i, spine_docs) ==
    LET current_entry == ordered_nav_entries[i]
        current_doc_html == Get(self_doc_content, current_entry.doc_href, <<>>)
        has_next == i + 1 <= Len(ordered_nav_entries)
        next_doc == IF has_next THEN ordered_nav_entries[i + 1].doc_href ELSE None
        next_pos == IF has_next THEN ordered_nav_entries[i + 1].position
                    ELSE NoneInt
        sliced == _slice_spine_html(self_doc_content, current_entry.doc_href,
                                    current_entry.position, next_doc, next_pos,
                                    spine_docs, TRUE)
        slice_html == IF Strip(sliced) = <<>> /\ current_doc_html # <<>>
                      THEN current_doc_html ELSE sliced
    IN IF Strip(slice_html) # <<>>
       THEN Strip(clean_text(get_text(slice_html)))
       ELSE <<>>

\* The loop "for i in range(num_entries)" from entry i on: content_texts
\* and content_lengths after it.
RECURSIVE SliceEntries(_, _, _, _, _, _)
SliceEntries(self_doc_content, ordered_nav_entries, i, spine_docs, texts, lengths) ==
    IF i > Len(ordered_nav_entries)
    THEN [content_texts |-> texts, content_lengths |-> lengths]
    ELSE LET current_src == ordered_nav_entries[i].src
             text == EntryText(self_doc_content, ordered_nav_entries, i, spine_docs)
         IN SliceEntries(self_doc_content, ordered_nav_entries, i + 1, spine_docs,
                         (current_src :> text) @@ texts,
                         (current_src :> (IF text # <<>>
                                          THEN calculate_text_length(text)
                                          ELSE 0)) @@ lengths)

\* The src and the title of the synthesized chapter.
PrefixSrc == "internal:prefix_content"
Introduction == <<"Introduction">>

\* The text before the first ordered entry, cleaned ("" when blank).
PrefixText(self_doc_content, ordered_nav_entries, spine_docs) ==
    LET first_entry == ordered_nav_entries[1]
        prefix_html ==
            ConcatDocs(self_doc_content,
                       PyTo(spine_docs, first_entry.doc_order))
                \o PyTo(Get(self_doc_content, first_entry.doc_href, <<>>),
                        first_entry.position)
    IN IF Strip(prefix_html) # <<>>
       THEN Strip(clean_text(get_text(prefix_html)))
       ELSE <<>>

----------------------------------------------------------------------------
(* The container (self.book) and the choice of the navigation document.    *)
(*                                                                         *)
(* book = [spine, documents, nav_items, ncx_items]: spine is the list of   *)
(* the names of the spine items, documents the ITEM_DOCUMENT items         *)
(* [name, content, soup], nav_items the ITEM_NAVIGATION items              *)
(* [nav_in_name, ext, soup] (ext: "html" for .xhtml/.html, "ncx", or       *)
(* "other"), ncx_items the items of type ITEM_NCX.  A parsed document is   *)
(* soup = [navs, has_navMap, navMap, has_pageList, pageList]; a <nav> is   *)
(* [epub_type, has_ol, ol_direct, ol].                                     *)

\* A parsed document without any navigation element.
NoSoup ==
    [navs |-> <<>>, has_navMap |-> FALSE, navMap |-> <<>>,
     has_pageList |-> FALSE, pageList |-> <<>>]

\* next((x for x in items if P(x)), None): the index of the first element
\* of the set of indices, 0 when it is empty.
FirstIndex(indices) ==
    IF indices = {} THEN 0 ELSE CHOOSE i \in indices : \A j \in indices : i <= j

\* The navigation document _process_epub_content_nav chooses:
\* [found, nav_type, soup].
ChooseNavItem(b) ==
    LET nav_items == b.nav_items
        preferred == FirstIndex({i \in 1..Len(nav_items) :
                                    nav_items[i].nav_in_name
                                    /\ nav_items[i].ext = "html"})
        html_nav == FirstIndex({i \in 1..Len(nav_items) :
                                   nav_items[i].ext = "html"})
        ncx_in_nav == FirstIndex({i \in 1..Len(nav_items) :
                                     nav_items[i].ext = "ncx"})
        in_document == FirstIndex({i \in 1..Len(b.documents) :
                                      \E k \in 1..Len(b.documents[i].soup.navs) :
                                          b.documents[i].soup.navs[k].epub_type = "toc"})
    IN IF preferred # 0
       THEN [found |-> TRUE, nav_type |-> "html", soup |-> nav_items[preferred].soup]
       ELSE IF html_nav # 0
       THEN [found |-> TRUE, nav_type |-> "html", soup |-> nav_items[html_nav].soup]
       ELSE IF ncx_in_nav # 0
       THEN [found |-> TRUE, nav_type |-> "ncx", soup |-> nav_items[ncx_in_nav].soup]
       ELSE IF b.ncx_items # <<>>
       THEN [found |-> TRUE, nav_type |-> "ncx", soup |-> b.ncx_items[1].soup]
       ELSE IF in_document # 0
       THEN [found |-> TRUE, nav_type |-> "html",
             soup |-> b.documents[in_document].soup]
       ELSE [found |-> FALSE, nav_type |-> None, soup |-> NoSoup]

\* The src attributes of the <content> elements under a list of navPoints
\* or pageTargets.
RECURSIVE ContentSrcs(_)
ContentSrcs(points) ==
    IF points = <<>> THEN {}
    ELSE (IF Head(points).has_src THEN {Head(points).src} ELSE {})
             \cup ContentSrcs(Head(points).children)
             \cup ContentSrcs(Tail(points))

\* href in src, for a document name and a navigation target: src is href
\* with a directory in front of it or a fragment behind it.
InSrc(href, src) ==
    \E dir \in {"", "OEBPS/"} :
        \/ src = dir \o href
        \/ \E f \in Fragments : src = dir \o href \o "#" \o f

\* any(href in nav_point.get("src", "") for nav_point in
\* nav_soup.find_all(["content", "a"])): an <a> has no src attribute.
ReferencedByNav(href, nav_soup) ==
    \E src \in ContentSrcs(nav_soup.navMap) \cup ContentSrcs(nav_soup.pageList) :
        InSrc(href, src)

\* self.doc_content after the loading loop.
LoadDocContent(b, nav_soup) ==
    LET doc_order == DocOrder(b.spine)
        kept == {i \in 1..Len(b.documents) :
                    \/ b.documents[i].name \in DOMAIN doc_order
                    \/ ReferencedByNav(b.documents[i].name, nav_soup)}
    IN [href \in {b.documents[i].name : i \in kept} |->
           b.documents[CHOOSE i \in kept :
                          /\ b.documents[i].name = href
                          /\ \A j \in kept : b.documents[j].name = href => j <= i
                      ].content]

\* The <nav> the NAV HTML is parsed from: the index of the toc nav, else of
\* the first nav with an <ol>, else 0.
TocNav(nav_soup) ==
    LET toc == FirstIndex({k \in 1..Len(nav_soup.navs) :
                              nav_soup.navs[k].epub_type = "toc"})
    IN IF toc # 0 THEN toc
       ELSE FirstIndex({k \in 1..Len(nav_soup.navs) : nav_soup.navs[k].has_ol})

\* The two lists once the chosen navigation document is parsed.
ParseNavigation(self_doc_content, chosen, spine_docs) ==
    LET nothing == [ordered_entries |-> <<>>, tree_structure_list |-> <<>>]
        toc_nav == TocNav(chosen.soup)
    IN IF chosen.nav_type = "ncx"
       THEN IF chosen.soup.has_navMap
            THEN ParseNcxChildren(self_doc_content, chosen.soup.navMap, <<>>,
                                  spine_docs, <<>>)
            ELSE nothing
       ELSE IF toc_nav # 0 /\ chosen.soup.navs[toc_nav].has_ol
                 /\ chosen.soup.navs[toc_nav].ol_direct
       THEN ParseHtmlChildren(self_doc_content, chosen.soup.navs[toc_nav].ol, <<>>,
                              spine_docs, <<>>)
       ELSE nothing

\* The Introduction node put in front of the tree when text precedes the
\* first anchor.
IntroductionNode ==
    [src |-> PrefixSrc, title |-> Introduction, children |-> <<>>]

\* The parser once the entries are sliced: [raised, self].
FinishProcessing(self, loaded, parsed, sliced, prefix_text) ==
    [raised |-> FALSE,
     self |-> [self EXCEPT
         !.doc_content = loaded,
         !.content_texts =
             IF prefix_text # <<>>
             THEN (PrefixSrc :> prefix_text) @@ sliced.content_texts
             ELSE sliced.content_texts,
         !.content_lengths =
             IF prefix_text # <<>>
             THEN (PrefixSrc :> Len(prefix_text)) @@ sliced.content_lengths
             ELSE sliced.content_lengths,
         !.processed_nav_structure =
             IF prefix_text # <<>>
             THEN <<IntroductionNode>> \o parsed.tree_structure_list
             ELSE parsed.tree_structure_list,
         !._nav_processed = TRUE,
         !._upper_title_cache = NoTitleCache]]

\* The slicing of the sorted entries and the content before the first one.
SliceOrdered(b, self, loaded, parsed, ordered_nav_entries) ==
    Only({FinishProcessing(self, loaded, parsed, sliced, prefix_text) :
            sliced \in {SliceEntries(loaded, ordered_nav_entries, 1, b.spine,
                                     EmptyDict, EmptyDict)},
            prefix_text \in {PrefixText(loaded, ordered_nav_entries, b.spine)}})

\* An OrderParsed that does not test parse_successful: without any ordered
\* entry the tree is kept and the parser marked as processed.
OrderParsedUnchecked(b, self, loaded, parsed) ==
    IF parsed.ordered_entries = <<>>
    THEN [raised |-> FALSE,
          self |-> [self EXCEPT !.doc_content = loaded,
                                !.content_texts = EmptyDict,
                                !.content_lengths = EmptyDict,
                                !.processed_nav_structure =
                                    parsed.tree_structure_list,
                                !._nav_processed = TRUE]]
    ELSE Only({SliceOrdered(b, self, loaded, parsed, ordered_nav_entries) :
                 ordered_nav_entries \in {SortByPosition(parsed.ordered_entries)}})

\* "No valid navigation entries found after parsing", or the sort and what
\* follows it.
OrderParsed(b, self, loaded, parsed) ==
    IF parsed.ordered_entries = <<>>
    THEN [raised |-> TRUE,
          self |-> [self EXCEPT !.doc_content = loaded,
                                !.content_texts = EmptyDict,
                                !.content_lengths = EmptyDict,
                                !.processed_nav_structure =
                                    parsed.tree_structure_list]]
    ELSE Only({SliceOrdered(b, self, loaded, parsed, ordered_nav_entries) :
                 ordered_nav_entries \in {SortByPosition(parsed.ordered_entries)}})

\* "No navigation document (NAV HTML or NCX) found", or the loading of the
\* documents, the parsing of the navigation document and what follows.
ProcessChosen(b, self, chosen) ==
    IF ~chosen.found THEN [raised |-> TRUE, self |-> self]
    ELSE Only({Only({OrderParsed(b, self, loaded, parsed) :
                       parsed \in {ParseNavigation(loaded, chosen, b.spine)}}) :
                 loaded \in {LoadDocContent(b, chosen.soup)}})

\* A _process_epub_content_nav that does not test _nav_processed: every
\* call processes the navigation again.
_process_epub_content_nav_again(b, self) ==
    Only({ProcessChosen(b, self, chosen) : chosen \in {ChooseNavItem(b)}})

\* EPUBParser._process_epub_content_nav on the parser self
\* (a record of the parser's fields): [raised, self].
_process_epub_content_nav(b, self) ==
    IF self._nav_processed THEN [raised |-> FALSE, self |-> self]
    ELSE Only({ProcessChosen(b, self, chosen) : chosen \in {ChooseNavItem(b)}})

----------------------------------------------------------------------------
(* Chapter Tree Builder.                                                   *)

\* The id of a chapter: chapter_id = src if src else f"chapter_{n}"
ChapterId(src, n) == IF Truthy(src) THEN src ELSE "chapter_" \o ToString(n)

RECURSIVE _build_chapters_from_nav(_, _, _, _, _, _)

\* EPUBParser._build_chapters_from_nav: the list chapters after the call.
_build_chapters_from_nav(self, nav_structure, chapters, parent_id, level, include_text) ==
    IF nav_structure = <<>> THEN chapters
    ELSE LET entry == Head(nav_structure)
             src == entry.src
             chapter_id == ChapterId(src, Len(chapters))
             chapter ==
                 [id |-> chapter_id,
                  title |-> entry.title,
                  text |-> IF include_text /\ Truthy(src)
                           THEN Get(self.content_texts, src, <<>>) ELSE <<>>,
                  char_count |-> IF Truthy(src)
                                 THEN Get(self.content_lengths, src, 0) ELSE 0,
                  parent_id |-> parent_id,
                  level |-> level]
             with_children ==
                 _build_chapters_from_nav(self, entry.children,
                                          Append(chapters, chapter),
                                          chapter_id, level + 1, include_text)
         IN _build_chapters_from_nav(self, Tail(nav_structure), with_children,
                                     parent_id, level, include_text)

\* The list of chapters of a processed parser, or nothing after a raise:
\* [raised, self, val].
ChaptersOf(r, level, include_text) ==
    IF r.raised THEN [raised |-> TRUE, self |-> r.self, val |-> <<>>]
    ELSE [raised |-> FALSE, self |-> r.self,
          val |-> _build_chapters_from_nav(r.self,
                                           r.self.processed_nav_structure,
                                           <<>>, None, level, include_text)]

\* get_chapters numbering the depths from 0.
get_chapters_from_level_0(b, self, include_text) ==
    Only({ChaptersOf(r, 0, include_text) : r \in {_process_epub_content_nav(b, self)}})

\* EPUBParser.get_chapters: [raised, self, val].
get_chapters(b, self, include_text) ==
    Only({ChaptersOf(r, 1, include_text) : r \in {_process_epub_content_nav(b, self)}})

----------------------------------------------------------------------------
(* The parser as a record, and the calls made on it.                       *)

\* The parser's fields.
Self ==
    [doc_content |-> doc_content,
     content_texts |-> content_texts,
     content_lengths |-> content_lengths,
     processed_nav_structure |-> processed_nav_structure,
     _nav_processed |-> _nav_processed,
     _page_list_nav |-> _page_list_nav,
     _page_list_nav_checked |-> _page_list_nav_checked,
     _upper_title_cache |-> _upper_title_cache]

\* The parser's fields become those of the record new.
Becomes(new) ==
    /\ doc_content' = new.doc_content
    /\ content_texts' = new.content_texts
    /\ content_lengths' = new.content_lengths
    /\ processed_nav_structure' = new.processed_nav_structure
    /\ _nav_processed' = new._nav_processed
    /\ _page_list_nav' = new._page_list_nav
    /\ _page_list_nav_checked' = new._page_list_nav_checked
    /\ _upper_title_cache' = new._upper_title_cache
    /\ UNCHANGED <<book, files, _bookmarks>>

\* A call parser.get_chapters(include_text).
GetChaptersCall ==
    \E include_text \in BOOLEAN :
        \E r \in {get_chapters(book, Self, include_text)} :
           /\ IF ret.op = "get_chapters" THEN ret.include_text # include_text
              ELSE TRUE
           /\ Becomes(r.self)
           /\ ret' = [op |-> "get_chapters", include_text |-> include_text,
                      raised |-> r.raised, val |-> r.val]

----------------------------------------------------------------------------
(* Books with a table of contents, and the calls get_chapters on them.     *)

\* Documents of a book with a table of contents.
NavDocs == 2
\* Entries of a table of contents.
MaxNodes == 3

\* Targets a table-of-contents entry may have: none, a document (in the
\* spine or not, as the spine has it) and an anchor of the first document.
NavSrcs == {None, "d1", "d1#a", "d2"}

\* The title of every entry.
NavTitle == <<"T">>

\* The markup a document may hold: nothing or text and, for the first
\* document, text around an anchor or blank space before an anchor.
DocShapes(k) ==
    {<<>>, <<DocChar(k, 1)>>}
        \cup (IF k = 1
              THEN {<<DocChar(k, 1), AnchorTag("a"), DocChar(k, 2)>>,
                    <<" ", AnchorTag("a"), DocChar(k, 2)>>}
              ELSE {})

\* The spines over the documents: each document at most once.
Spines ==
    {sp \in UNION {[1..n -> {DocName(k) : k \in 1..NavDocs}] : n \in 1..NavDocs} :
        \A i, j \in DOMAIN sp : sp[i] = sp[j] => i = j}

RECURSIVE ForestsOfSize(_)

\* The entries [src, title, children] with n nodes in all.
TreesOfSize(n) ==
    {[src |-> src, title |-> NavTitle, children |-> children] :
        src \in NavSrcs, children \in ForestsOfSize(n - 1)}

\* The lists of entries with n nodes in all.
ForestsOfSize(n) ==
    IF n = 0 THEN {<<>>}
    ELSE UNION {{<<t>> \o rest : t \in TreesOfSize(k),
                                 rest \in ForestsOfSize(n - k)} : k \in 1..n}

RECURSIVE HtmlList(_)
\* The <li> elements of a NAV HTML list holding the entries.
HtmlList(forest) ==
    [i \in 1..Len(forest) |->
        [has_href |-> forest[i].src # None,
         href |-> forest[i].src,
         link_text |-> forest[i].title,
         has_span |-> FALSE,
         span_text |-> <<>>,
         li_text |-> <<>>,
         children |-> HtmlList(forest[i].children)]]

RECURSIVE NcxList(_)
\* The navPoint elements of an NCX holding the entries.
NcxList(forest) ==
    [i \in 1..Len(forest) |->
        [has_label |-> TRUE,
         label_text |-> forest[i].title,
         has_src |-> forest[i].src # None,
         src |-> forest[i].src,
         children |-> NcxList(forest[i].children)]]

\* A NAV HTML document whose toc nav lists the entries.
HtmlSoup(forest) ==
    [NoSoup EXCEPT !.navs = <<[epub_type |-> "toc", has_ol |-> TRUE,
                               ol_direct |-> TRUE, ol |-> HtmlList(forest)]>>]

\* An NCX document whose navMap lists the entries.
NcxSoup(forest) ==
    [NoSoup EXCEPT !.has_navMap = TRUE, !.navMap = NcxList(forest)]

\* Where a book keeps its table of contents.
NavKinds == {"nav_html", "ncx_in_nav", "ncx_item", "in_document", "none"}

\* The title of the book in its metadata.
BookTitle == <<"Test Book with Chapters">>

\* The book with the spine, the document contents and the table of
\* contents given, kept as kind says.
MakeBook(spine, contents, kind, forest) ==
    LET docs == [k \in 1..NavDocs |->
                    [name |-> DocName(k), content |-> contents[k],
                     soup |-> NoSoup]]
    IN [spine |-> spine,
        title |-> BookTitle,
        documents |->
            IF kind = "in_document"
            THEN Append(docs, [name |-> "nav", content |-> <<>>,
                               soup |-> HtmlSoup(forest)])
            ELSE docs,
        nav_items |->
            IF kind = "nav_html"
            THEN <<[nav_in_name |-> TRUE, ext |-> "html", soup |-> HtmlSoup(forest)]>>
            ELSE IF kind = "ncx_in_nav"
            THEN <<[nav_in_name |-> FALSE, ext |-> "ncx", soup |-> NcxSoup(forest)]>>
            ELSE <<>>,
        ncx_items |->
            IF kind = "ncx_item"
            THEN <<[soup |-> NcxSoup(forest)]>>
            ELSE <<>>]

\* EPUBParser(path) on a book with a table of contents; the largest tables
\* are kept in a NAV HTML item or in an NCX item.
NavInit ==
    \E spine \in Spines :
    \E contents \in [1..NavDocs -> UNION {DocShapes(k) : k \in 1..NavDocs}] :
    \E kind \in NavKinds :
    \E n \in 0..MaxNodes :
    \E forest \in ForestsOfSize(n) :
        /\ \A k \in 1..NavDocs : contents[k] \in DocShapes(k)
        /\ n = MaxNodes => kind \in {"nav_html", "ncx_item"}
        /\ Constructed(MakeBook(spine, contents, kind, forest))

NavNext == GetChaptersCall

SpecNav == NavInit /\ [][NavNext]_vars

----------------------------------------------------------------------------
(* Sentence segmentation (the phrasplit library) and                       *)
(* EPUBParser._split_into_sentences.                                       *)

\* None where a text is expected.
NoneText == <<None>>

\* The paragraph break marker.
ParagraphBreak == <<"\n", "\n">>

\* Characters that end a sentence.
Terminators == {"."}

\* The first index of text at which a paragraph break starts, 0 if none.
FirstBreak(text) ==
    FirstIndex({k \in 1..(Len(text) - 1) : text[k] = "\n" /\ text[k + 1] = "\n"})

\* phrasplit.split_paragraphs: the pieces between paragraph breaks.
RECURSIVE split_paragraphs(_)
split_paragraphs(text) ==
    Only({IF k = 0 THEN <<text>>
          ELSE <<SubSeq(text, 1, k - 1)>>
                   \o split_paragraphs(SubSeq(text, k + 2, Len(text))) :
            k \in {FirstBreak(text)}})

\* The first index of paragraph at which a sentence ends (a terminator at
\* the end or before white space), 0 if none.
FirstEnd(paragraph) ==
    FirstIndex({k \in 1..Len(paragraph) :
                   /\ paragraph[k] \in Terminators
                   /\ k = Len(paragraph) \/ paragraph[k + 1] \in Whitespace})

\* phrasplit.split_sentences: the sentences of a paragraph.
RECURSIVE split_sentences(_)
split_sentences(paragraph) ==
    Only({IF k = 0 \/ k = Len(paragraph) THEN <<paragraph>>
          ELSE <<SubSeq(paragraph, 1, k)>>
                   \o split_sentences(SubSeq(paragraph, k + 1, Len(paragraph))) :
            k \in {FirstEnd(paragraph)}})

\* The sentences of a list, stripped, the empty ones left out.
RECURSIVE StrippedSentences(_)
StrippedSentences(para_sentences) ==
    IF para_sentences = <<>> THEN <<>>
    ELSE Only({IF sent # <<>> THEN <<sent>> ELSE <<>> :
                 sent \in {Strip(Head(para_sentences))}})
             \o StrippedSentences(Tail(para_sentences))

\* The loop "for para_idx, paragraph in enumerate(paragraphs)" from the
\* paragraph of (0-based) index para_idx on.
RECURSIVE SentencesFrom(_, _)
SentencesFrom(paragraphs, para_idx) ==
    IF para_idx >= Len(paragraphs) THEN <<>>
    ELSE (IF Strip(paragraphs[para_idx + 1]) = <<>> THEN <<>>
          ELSE StrippedSentences(split_sentences(paragraphs[para_idx + 1]))
                   \o (IF para_idx < Len(paragraphs) - 1
                       THEN <<ParagraphBreak>> ELSE <<>>))
             \o SentencesFrom(paragraphs, para_idx + 1)

\* EPUBParser._split_into_sentences
_split_into_sentences(text) ==
    IF text = <<>> \/ Strip(text) = <<>> THEN <<>>
    ELSE Only({SentencesFrom(paragraphs, 0) :
                 paragraphs \in {split_paragraphs(text)}})

----------------------------------------------------------------------------
(* Synthetic Paginator: EPUBParser._generate_synthetic_pages.              *)

\* len(text.split()): the number of words of a text.
WordCount(text) ==
    Cardinality({i \in 1..Len(text) :
                    /\ text[i] \notin Whitespace
                    /\ i = 1 \/ text[i - 1] \in Whitespace})

\* get_size: the size of a text in characters or in words.
get_size(text, use_words) == IF use_words THEN WordCount(text) ELSE Len(text)

\* The loop "for i, part in enumerate(page_text_parts)" from the part of
\* (1-based) index i on: what it adds to page_text.
RECURSIVE JoinParts(_, _)
JoinParts(page_text_parts, i) ==
    IF i > Len(page_text_parts) THEN <<>>
    ELSE (IF page_text_parts[i] = ParagraphBreak THEN ParagraphBreak
          ELSE IF i > 1 /\ page_text_parts[i - 1] # ParagraphBreak
          THEN <<" ">> \o page_text_parts[i]
          ELSE page_text_parts[i])
             \o JoinParts(page_text_parts, i + 1)

\* A synthetic Page.
SyntheticPage(page_num, page_text, chapter_id, chapter_title) ==
    [page_number |-> <<ToString(page_num)>>,
     text |-> page_text,
     char_count |-> calculate_text_length(page_text),
     source |-> "SYNTHETIC",
     chapter_id |-> chapter_id,
     chapter_title |-> chapter_title]

\* The paginator before the first chapter: its local variables.
PaginatorStart ==
    [pages |-> <<>>, page_num |-> 1, current_sentences |-> <<>>,
     current_size |-> 0, current_chapter_id |-> None,
     current_chapter_title |-> NoneText]

\* save_page leaving the saved sentences in current_sentences.
save_page_keeping_sentences(st) ==
    IF st.current_sentences = <<>> THEN st
    ELSE [st EXCEPT
             !.pages = Append(st.pages,
                              SyntheticPage(st.page_num,
                                            Strip(JoinParts(st.current_sentences, 1)),
                                            st.current_chapter_id,
                                            st.current_chapter_title)),
             !.page_num = st.page_num + 1,
             !.current_size = 0]

\* save_page, the closure of _generate_synthetic_pages, on its variables st.
save_page(st) ==
    IF st.current_sentences = <<>> THEN st
    ELSE [st EXCEPT
             !.pages = Append(st.pages,
                              SyntheticPage(st.page_num,
                                            Strip(JoinParts(st.current_sentences, 1)),
                                            st.current_chapter_id,
                                            st.current_chapter_title)),
             !.page_num = st.page_num + 1,
             !.current_sentences = <<>>,
             !.current_size = 0]

\* The body of "for sentence in sentences" for a sentence that is not a
\* paragraph break marker, stripped and not empty.
AddSentence(st, sentence, sentence_size, page_size) ==
    IF sentence_size > page_size /\ st.current_sentences = <<>>
    THEN [st EXCEPT
             !.pages = Append(st.pages,
                              SyntheticPage(st.page_num, sentence,
                                            st.current_chapter_id,
                                            st.current_chapter_title)),
             !.page_num = st.page_num + 1]
    ELSE Only({[flushed EXCEPT
                   !.current_sentences = Append(flushed.current_sentences, sentence),
                   !.current_size = flushed.current_size + sentence_size] :
                 flushed \in {IF st.current_size + sentence_size > page_size
                                   /\ st.current_sentences # <<>>
                              THEN save_page(st) ELSE st}})

\* The body of "for sentence in sentences".
PlaceSentence(st, sentence, page_size, use_words) ==
    IF sentence = ParagraphBreak
    THEN [st EXCEPT !.current_sentences = Append(st.current_sentences, ParagraphBreak)]
    ELSE Only({IF stripped = <<>> THEN st
               ELSE AddSentence(st, stripped, get_size(stripped, use_words), page_size) :
                 stripped \in {Strip(sentence)}})

\* The loop "for sentence in sentences" from the sentence of index i on.
RECURSIVE PlaceSentences(_, _, _, _, _)
PlaceSentences(st, sentences, i, page_size, use_words) ==
    IF i > Len(sentences) THEN st
    ELSE Only({PlaceSentences(next, sentences, i + 1, page_size, use_words) :
                 next \in {PlaceSentence(st, sentences[i], page_size, use_words)}})

\* The body of "for chapter in chapters".
PlaceChapter(st, chapter, page_size, use_words) ==
    IF chapter.text = <<>> THEN st
    ELSE Only({PlaceSentences([flushed EXCEPT
                                  !.current_chapter_id = chapter.id,
                                  !.current_chapter_title = chapter.title],
                              sentences, 1, page_size, use_words) :
                 flushed \in {IF /\ st.current_chapter_id # None
                                 /\ \/ chapter.id # st.current_chapter_id
                                    \/ chapter.title # st.current_chapter_title
                                 /\ st.current_sentences # <<>>
                              THEN save_page(st) ELSE st},
                 sentences \in {_split_into_sentences(chapter.text)}})

\* The loop "for chapter in chapters" from the chapter of index i on.
RECURSIVE PlaceChapters(_, _, _, _, _)
PlaceChapters(st, chapters, i, page_size, use_words) ==
    IF i > Len(chapters) THEN st
    ELSE Only({PlaceChapters(next, chapters, i + 1, page_size, use_words) :
                 next \in {PlaceChapter(st, chapters[i], page_size, use_words)}})

\* The pages made of a list of chapters.
Paginate(chapters, page_size, use_words) ==
    IF chapters = <<>> THEN <<>>
    ELSE save_page(PlaceChapters(PaginatorStart, chapters, 1,
                                 page_size, use_words)).pages

\* EPUBParser._generate_synthetic_pages: [raised, self, val].
_generate_synthetic_pages(b, self, page_size, use_words) ==
    Only({IF got.raised THEN got
          ELSE [got EXCEPT !.val = Paginate(got.val, page_size, use_words)] :
            got \in {get_chapters(b, self, TRUE)}})

\* A call parser._generate_synthetic_pages(page_size, use_words), the first
\* call made on the parser.
GenerateSyntheticPagesCall ==
    /\ ret.op = "__init__"
    /\ \E page_size \in 1..MaxPageSize :
       \E use_words \in BOOLEAN :
       \E r \in {_generate_synthetic_pages(book, Self, page_size, use_words)} :
        /\ Becomes(r.self)
        /\ ret' = [op |-> "_generate_synthetic_pages", page_size |-> page_size,
                   use_words |-> use_words, raised |-> r.raised, val |-> r.val]

----------------------------------------------------------------------------
(* Books whose documents hold sentences, and the calls                     *)
(* _generate_synthetic_pages on them.                                      *)

\* The sentences of the documents: "a." and "b c d.".
SentenceSet == {<<"a", ".">>, <<"b", " ", "c", " ", "d", ".">>}

\* What separates two sentences: a space or a paragraph break.
Separators == {<<" ">>, ParagraphBreak}

\* The texts of n sentences.
RECURSIVE TextsOf(_)
TextsOf(n) ==
    IF n = 1 THEN SentenceSet
    ELSE {text \o sep \o sentence :
             text \in TextsOf(n - 1), sep \in Separators, sentence \in SentenceSet}

\* The titles of the entries.
SynthTitles == {<<"T">>, <<"U">>}

\* The tables of contents: flat lists of entries.
SynthEntries ==
    UNION {[1..n -> {[src |-> DocName(k), title |-> title, children |-> <<>>] :
                        k \in 1..NavDocs, title \in SynthTitles}] :
              n \in 1..MaxChapters}

\* EPUBParser(path) on a book of sentences: the first document holds up to
\* MaxSentences sentences, the others one or none.
SynthInit ==
    \E first \in UNION {TextsOf(n) : n \in 1..MaxSentences} :
    \E others \in [2..NavDocs -> SentenceSet \cup {<<>>}] :
    \E entries \in SynthEntries :
        Constructed(MakeBook(SpineOf(NavDocs),
                             [k \in 1..NavDocs |-> IF k = 1 THEN first ELSE others[k]],
                             "nav_html", entries))

SynthNext == GenerateSyntheticPagesCall

SpecSynth == SynthInit /\ [][SynthNext]_vars

----------------------------------------------------------------------------
(* Title deduplication: EPUBParser._remove_duplicate_title_line, with the  *)
(* str methods it uses.  A title of several characters is one token.       *)

\* A word of 118 letters, two short of the longest heading-like line.
LongWordLen == 118
LongWord == "W..118..w"

\* The tokens of several characters, with their upper-case, lower-case and
\* alphanumeric forms and their length.
WordTokens ==
    {[token |-> "Introduction", upper |-> "INTRODUCTION",
      lower |-> "introduction", normal |-> "introduction", len |-> 12,
      normal_len |-> 12],
     [token |-> "Untitled Section", upper |-> "UNTITLED SECTION",
      lower |-> "untitled section", normal |-> "untitledsection", len |-> 16,
      normal_len |-> 15],
     [token |-> "Test Book with Chapters", upper |-> "TEST BOOK WITH CHAPTERS",
      lower |-> "test book with chapters", normal |-> "testbookwithchapters",
      len |-> 23, normal_len |-> 20],
     [token |-> "Chapter", upper |-> "CHAPTER", lower |-> "chapter",
      normal |-> "chapter", len |-> 7, normal_len |-> 7],
     [token |-> LongWord, upper |-> "W..118..W", lower |-> "w..118..w",
      normal |-> "w..118..w", len |-> LongWordLen, normal_len |-> LongWordLen]}

\* The letters, lower case and upper case.
CasePairs ==
    {<<"a", "A">>, <<"b", "B">>, <<"c", "C">>, <<"d", "D">>, <<"e", "E">>,
     <<"f", "F">>, <<"g", "G">>, <<"h", "H">>, <<"i", "I">>, <<"j", "J">>,
     <<"k", "K">>, <<"l", "L">>, <<"o", "O">>, <<"t", "T">>, <<"u", "U">>,
     <<"v", "V">>}

\* c is a token of several characters, in one of its forms.
IsWord(c) ==
    \E w \in WordTokens : c \in {w.token, w.upper, w.lower, w.normal}

\* The record of a token of several characters.
WordOf(c) ==
    CHOOSE w \in WordTokens : c \in {w.token, w.upper, w.lower, w.normal}

\* str.upper() of one token
UpperOf(c) ==
    IF IsWord(c) THEN WordOf(c).upper
    ELSE IF \E pair \in CasePairs : pair[1] = c
    THEN (CHOOSE pair \in CasePairs : pair[1] = c)[2]
    ELSE c

\* str.lower() of one token
LowerOf(c) ==
    IF IsWord(c) THEN WordOf(c).lower
    ELSE IF \E pair \in CasePairs : pair[2] = c
    THEN (CHOOSE pair \in CasePairs : pair[2] = c)[1]
    ELSE c

\* str.upper()
Upper(s) == [i \in 1..Len(s) |-> UpperOf(s[i])]

\* str.lower()
Lower(s) == [i \in 1..Len(s) |-> LowerOf(s[i])]

\* Characters that are letters or digits.
Alphanumeric ==
    {pair[1] : pair \in CasePairs} \cup {pair[2] : pair \in CasePairs}
        \cup {"0", "1", "2", "3", "4", "5", "6", "7", "8", "9"}

\* re.sub(r"[^a-z0-9]+", "", s.lower())
Normalized(s) ==
    LET kept == SelectSeq(s, LAMBDA c : c \in Alphanumeric \/ IsWord(c))
    IN [i \in 1..Len(kept) |->
           IF IsWord(kept[i]) THEN WordOf(kept[i]).normal
           ELSE LowerOf(kept[i])]

\* len(s), in characters
RECURSIVE CharLen(_)
CharLen(s) ==
    IF s = <<>> THEN 0
    ELSE (IF ~IsWord(Head(s)) THEN 1
          ELSE IF Head(s) = WordOf(Head(s)).normal
          THEN WordOf(Head(s)).normal_len
          ELSE WordOf(Head(s)).len) + CharLen(Tail(s))

\* s.startswith(prefix)
StartsWith(s, prefix) ==
    Len(prefix) <= Len(s) /\ SubSeq(s, 1, Len(prefix)) = prefix

\* sub in s
Contains(s, sub) ==
    \E k \in 0..(Len(s) - Len(sub)) : SubSeq(s, k + 1, k + Len(sub)) = sub

\* The index of the first "\n" of text, 0 if none.
FirstNewline(text) ==
    IF \E k \in 1..Len(text) : text[k] = "\n"
    THEN CHOOSE k \in 1..Len(text) :
            text[k] = "\n" /\ \A j \in 1..(k - 1) : text[j] # "\n"
    ELSE 0

\* text.split("\n", 1)
Split1(text) ==
    IF FirstNewline(text) = 0 THEN <<text>>
    ELSE <<SubSeq(text, 1, FirstNewline(text) - 1),
           SubSeq(text, FirstNewline(text) + 1, Len(text))>>

\* text.split("\n")
RECURSIVE SplitLines(_)
SplitLines(text) ==
    IF FirstNewline(text) = 0 THEN <<text>>
    ELSE <<SubSeq(text, 1, FirstNewline(text) - 1)>>
             \o SplitLines(SubSeq(text, FirstNewline(text) + 1, Len(text)))

\* "\n".join(lines)
RECURSIVE JoinLines(_)
JoinLines(lines) ==
    IF lines = <<>> THEN <<>>
    ELSE IF Len(lines) = 1 THEN lines[1]
    ELSE lines[1] \o <<"\n">> \o JoinLines(Tail(lines))

\* The characters of [\s:\-\.,\u2013\u2014]
TitleSeparators == Whitespace \cup {":", "-", ".", ","}

\* The number of leading characters of s that are in set.
RECURSIVE LeadingIn(_, _)
LeadingIn(s, set) ==
    IF s = <<>> \/ Head(s) \notin set THEN 0
    ELSE 1 + LeadingIn(Tail(s), set)

\* separator_pattern.match(first_line): whether it matches, and group(1).
SeparatorMatch(first_line, title_clean) ==
    LET rest == PyFrom(first_line, Len(title_clean))
        seps == LeadingIn(rest, TitleSeparators)
    IN IF /\ StartsWith(Lower(first_line), Lower(title_clean))
          /\ Len(rest) >= 2
          /\ seps >= 1
       THEN [matched |-> TRUE,
             group |-> PyFrom(rest, Min(seps, Len(rest) - 1))]
       ELSE [matched |-> FALSE, group |-> <<>>]

\* A join_remainder that keeps the white space before the remainder.
join_remainder_unstripped(lines, remainder) ==
    IF Len(lines) > 1
    THEN IF remainder # <<>> THEN remainder \o <<"\n">> \o lines[2]
         ELSE lines[2]
    ELSE remainder

\* join_remainder
join_remainder(lines, remainder) ==
    IF Len(lines) > 1
    THEN IF LStrip(remainder) # <<>>
         THEN LStrip(remainder) \o <<"\n">> \o lines[2]
         ELSE lines[2]
    ELSE LStrip(remainder)

\* lines[1] if len(lines) > 1 else ""
AfterFirstLine(lines) == IF Len(lines) > 1 THEN lines[2] ELSE <<>>

\* The prefixes of a heading.
HeadingPrefixes == {"chapter", "part", "book", "section", "act"}

\* A normalized matching that asks the title to begin the first line.
NormalizedMatchAtStart(first_line, title_clean) ==
    LET normalized_title == Normalized(title_clean)
        normalized_first == Normalized(first_line)
        last == RStrip(first_line)
        is_heading_like ==
            /\ CharLen(first_line) <= 120
            /\ ~(last # <<>> /\ last[Len(last)] \in {".", "!", "?"})
    IN /\ normalized_title # <<>>
       /\ normalized_first # <<>>
       /\ \/ normalized_first = normalized_title
          \/ /\ is_heading_like
             /\ StartsWith(normalized_first, normalized_title)
             /\ \/ CharLen(normalized_title) >= 3
                \/ Lower(first_line)[1] \in HeadingPrefixes

\* "6. Normalized matching for heading-like first lines"
NormalizedMatch(first_line, title_clean) ==
    LET normalized_title == Normalized(title_clean)
        normalized_first == Normalized(first_line)
        last == RStrip(first_line)
        is_heading_like ==
            /\ CharLen(first_line) <= 120
            /\ ~(last # <<>> /\ last[Len(last)] \in {".", "!", "?"})
    IN /\ normalized_title # <<>>
       /\ normalized_first # <<>>
       /\ \/ normalized_first = normalized_title
          \/ /\ is_heading_like
             /\ Contains(normalized_first, normalized_title)
             /\ \/ CharLen(normalized_title) >= 3
                \/ Lower(first_line)[1] \in HeadingPrefixes

\* The scenarios of _remove_duplicate_title_line, on the split text.
RemoveTitleFrom(text, lines, first_line, title_clean) ==
    IF title_clean = <<>> THEN text
    ELSE IF first_line = title_clean THEN AfterFirstLine(lines)
    ELSE IF Lower(first_line) = Lower(title_clean) THEN AfterFirstLine(lines)
    ELSE IF StartsWith(first_line, title_clean \o <<" ">>)
    THEN join_remainder(lines, PyFrom(first_line, Len(title_clean)))
    ELSE IF StartsWith(Lower(first_line), Lower(title_clean) \o <<" ">>)
    THEN join_remainder(lines, PyFrom(first_line, Len(title_clean)))
    ELSE IF SeparatorMatch(first_line, title_clean).matched
    THEN join_remainder(lines, SeparatorMatch(first_line, title_clean).group)
    ELSE IF NormalizedMatch(first_line, title_clean) THEN AfterFirstLine(lines)
    ELSE text

\* EPUBParser._remove_duplicate_title_line
_remove_duplicate_title_line(text, title) ==
    IF text = <<>> \/ title = <<>> THEN text
    ELSE RemoveTitleFrom(text, Split1(text), Strip(Split1(text)[1]), Strip(title))

----------------------------------------------------------------------------
(* Front matter: EPUBParser._get_upper_titles_for_toc,                     *)
(* EPUBParser._is_toc_or_front_matter and EPUBParser._strip_toc_from_page. *)
(* Each returns [raised, self, val].                                       *)

\* A title that is neither None nor empty.
TruthyText(title) == title # NoneText /\ title # <<>>

\* front_matter_keywords
front_matter_keywords ==
    {<<"INTRODUCTION">>, <<"TABLE OF CONTENTS">>, <<"CONTENTS">>,
     <<"T", "O", "C">>, <<"ACKNOWLEDGEMENTS">>, <<"ACKNOWLEDGMENTS">>,
     <<"FOREWORD">>, <<"PREFACE">>}

\* The titles of _get_upper_titles_for_toc, from the chapters got.
UpperTitles(b, got) ==
    IF got.raised THEN [raised |-> TRUE, self |-> got.self, val |-> {}]
    ELSE Only({[raised |-> FALSE,
                self |-> [got.self EXCEPT !._upper_title_cache =
                             [cached |-> TRUE, titles |-> titles]],
                val |-> titles] :
                 titles \in {(IF b.title # <<>> THEN {Upper(b.title)} ELSE {})
                               \cup {Upper(got.val[i].title) :
                                       i \in {j \in 1..Len(got.val) :
                                                TruthyText(got.val[j].title)}}}})

\* EPUBParser._get_upper_titles_for_toc
_get_upper_titles_for_toc(b, self) ==
    IF self._upper_title_cache.cached
    THEN [raised |-> FALSE, self |-> self, val |-> self._upper_title_cache.titles]
    ELSE Only({UpperTitles(b, got) : got \in {get_chapters(b, self, FALSE)}})

\* The size of the beginning of a page that is searched for titles.
TocSearchLength == 2000

\* The lines of the beginning of the page that are titles, counted.
TitleLineCount(text, search_terms) ==
    LET lines == SplitLines(Upper(PyTo(text, TocSearchLength)))
    IN Cardinality({i \in 1..Len(lines) : Strip(lines[i]) \in search_terms})

\* An _is_toc_or_front_matter that flags a page from 3 title lines on.
_is_toc_or_front_matter_from_3(b, self, page) ==
    IF page.text = <<>> THEN [raised |-> FALSE, self |-> self, val |-> FALSE]
    ELSE IF /\ TruthyText(page.chapter_title)
            /\ Upper(page.chapter_title) \in front_matter_keywords
    THEN [raised |-> FALSE, self |-> self, val |-> TRUE]
    ELSE Only({[terms EXCEPT !.val =
                   /\ ~terms.raised
                   /\ terms.val # {}
                   /\ TitleLineCount(page.text, terms.val) >= 3] :
                 terms \in {_get_upper_titles_for_toc(b, self)}})

\* EPUBParser._is_toc_or_front_matter
_is_toc_or_front_matter(b, self, page) ==
    IF page.text = <<>> THEN [raised |-> FALSE, self |-> self, val |-> FALSE]
    ELSE IF /\ TruthyText(page.chapter_title)
            /\ Upper(page.chapter_title) \in front_matter_keywords
    THEN [raised |-> FALSE, self |-> self, val |-> TRUE]
    ELSE Only({[terms EXCEPT !.val =
                   /\ ~terms.raised
                   /\ terms.val # {}
                   /\ TitleLineCount(page.text, terms.val) > 3] :
                 terms \in {_get_upper_titles_for_toc(b, self)}})

\* The most titles a book has: its own and those of its chapters.
MaxTitles == 4

\* The line is a chapter title.
ExactTitleLine(line, chapter_titles) ==
    Upper(Strip(line)) \in chapter_titles /\ CharLen(Strip(line)) < 30

\* The titles the line starts with, a space following.
TitlesStarting(line, chapter_titles) ==
    {title \in chapter_titles :
        StartsWith(Upper(Strip(line)), title \o <<" ">>)}

\* The line starts with a chapter title followed by other text.
PartialTitleLine(line, chapter_titles) ==
    /\ ~ExactTitleLine(line, chapter_titles)
    /\ \E title \in TitlesStarting(line, chapter_titles) : CharLen(title) < 30

\* The indices of toc_entries, in order.
TocEntries(lines, chapter_titles) ==
    SelectSeq([i \in 1..Len(lines) |-> i],
              LAMBDA i : \/ ExactTitleLine(lines[i], chapter_titles)
                         \/ PartialTitleLine(lines[i], chapter_titles))

\* The title the loop "for title in chapter_titles" meets first among those
\* the line starts with.  The order of a set of strings is not fixed: pick
\* tells which of them comes first.
FirstTitleStarting(line, chapter_titles, pick) ==
    LET starting == TitlesStarting(line, chapter_titles)
        k == ((pick - 1) % Cardinality(starting)) + 1
    IN CHOOSE title \in starting :
          Cardinality({other \in starting : Len(other) < Len(title)}) = k - 1

\* after_toc, for the last entry of the listing.
AfterToc(lines, last_entry_idx, chapter_titles, pick) ==
    LET rest == SubSeq(lines, last_entry_idx + 1, Len(lines))
        last_entry_line == Strip(lines[last_entry_idx])
    IN IF \/ ExactTitleLine(lines[last_entry_idx], chapter_titles)
          \/ TitlesStarting(last_entry_line, chapter_titles) = {}
       THEN rest
       ELSE <<LStrip(PyFrom(last_entry_line,
                            Len(FirstTitleStarting(last_entry_line,
                                                   chapter_titles, pick))))>>
                \o rest

\* "Combine, skipping leading empty lines"
RECURSIVE SkipLeadingEmpty(_)
SkipLeadingEmpty(lines) ==
    IF lines = <<>> THEN <<>>
    ELSE IF Strip(Head(lines)) = <<>> THEN SkipLeadingEmpty(Tail(lines))
    ELSE lines

\* _strip_toc_from_page once the titles are known.
StripToc(page_text, lines, toc_entries, chapter_titles, pick) ==
    IF /\ Len(toc_entries) >= 5
       /\ toc_entries[Len(toc_entries)] - toc_entries[1] < 3 * Len(toc_entries)
    THEN JoinLines(SubSeq(lines, 1, toc_entries[1] - 1)
                     \o SkipLeadingEmpty(AfterToc(lines,
                                                  toc_entries[Len(toc_entries)],
                                                  chapter_titles, pick)))
    ELSE page_text

\* EPUBParser._strip_toc_from_page
_strip_toc_from_page(b, self, page_text, pick) ==
    IF page_text = <<>> THEN [raised |-> FALSE, self |-> self, val |-> page_text]
    ELSE Only({[titles EXCEPT !.val =
                   IF titles.raised \/ titles.val = {} THEN page_text
                   ELSE Only({StripToc(page_text, lines, toc_entries,
                                       titles.val, pick) :
                                lines \in {SplitLines(page_text)},
                                toc_entries \in {TocEntries(SplitLines(page_text),
                                                            titles.val)}})] :
                 titles \in {_get_upper_titles_for_toc(b, self)}})

----------------------------------------------------------------------------
(* Page List Resolver: EPUBParser._find_page_list_nav and                  *)
(* EPUBParser._get_epub_page_list.                                         *)
(*                                                                         *)
(* A page-list <nav> is a <nav> whose epub_type is "page-list"; its <li>   *)
(* are read through has_href, href and link_text.  An NCX pageTarget is    *)
(* [has_label, label_text, has_src, src, children].                        *)

\* soup.find("nav", attrs={"epub:type": "page-list"}): its index, 0 if none.
PageListNavOf(soup) ==
    FirstIndex({k \in 1..Len(soup.navs) : soup.navs[k].epub_type = "page-list"})

\* The (page_list_nav, nav_type) pair of a NAV HTML <nav>.
HtmlPageList(nav) ==
    [found |-> TRUE, page_list |-> IF nav.has_ol THEN nav.ol ELSE <<>>,
     nav_type |-> "html"]

\* The search of _find_page_list_nav through the container.
SearchPageListNav(b) ==
    LET nav_items == b.nav_items
        in_nav == FirstIndex({i \in 1..Len(nav_items) :
                                 /\ nav_items[i].ext = "html"
                                 /\ PageListNavOf(nav_items[i].soup) # 0})
        ncx_in_nav == FirstIndex({i \in 1..Len(nav_items) :
                                     nav_items[i].ext = "ncx"})
        has_ncx == ncx_in_nav # 0 \/ b.ncx_items # <<>>
        ncx_soup == IF ncx_in_nav # 0 THEN nav_items[ncx_in_nav].soup
                    ELSE b.ncx_items[1].soup
        in_document == FirstIndex({i \in 1..Len(b.documents) :
                                      PageListNavOf(b.documents[i].soup) # 0})
    IN IF in_nav # 0
       THEN HtmlPageList(nav_items[in_nav].soup.navs[
                             PageListNavOf(nav_items[in_nav].soup)])
       ELSE IF has_ncx /\ ncx_soup.has_pageList
       THEN [found |-> TRUE, page_list |-> ncx_soup.pageList, nav_type |-> "ncx"]
       ELSE IF in_document # 0
       THEN HtmlPageList(b.documents[in_document].soup.navs[
                             PageListNavOf(b.documents[in_document].soup)])
       ELSE NoPageListNav

\* EPUBParser._find_page_list_nav: [self, val].
_find_page_list_nav(b, self) ==
    IF self._page_list_nav_checked
    THEN [self |-> self, val |-> self._page_list_nav]
    ELSE Only({[self |-> [self EXCEPT !._page_list_nav = found,
                                      !._page_list_nav_checked = TRUE],
                val |-> found] :
                 found \in {SearchPageListNav(b)}})

\* EPUBParser.has_page_list: [self, val].
has_page_list(b, self) ==
    Only({[self |-> r.self, val |-> r.val.found] :
            r \in {_find_page_list_nav(b, self)}})

\* "Parse page entries": the entries {page_number, src} of the page list.
RECURSIVE ParsePageEntries(_, _)
ParsePageEntries(page_list, nav_type) ==
    IF page_list = <<>> THEN <<>>
    ELSE LET item == Head(page_list)
             page_num == IF nav_type = "html" THEN Strip(item.link_text)
                         ELSE IF item.has_label THEN Strip(item.label_text)
                         ELSE <<>>
             src == IF nav_type = "html" THEN item.href
                    ELSE IF item.has_src THEN item.src ELSE ""
             kept == IF nav_type = "html" THEN item.has_href
                     ELSE page_num # <<>> /\ src # ""
         IN (IF kept THEN <<[page_number |-> page_num, src |-> src]>> ELSE <<>>)
                \o ParsePageEntries(Tail(page_list), nav_type)

\* The doc_order of an entry whose document is not in the spine.
NotInSpineOrder == 999999

\* An entry with its doc_href, doc_order and position.
ResolvePageEntry(self_doc_content, entry, spine_docs) ==
    Only({IF found.doc_key # None
          THEN [page_number |-> entry.page_number, src |-> entry.src,
                doc_href |-> found.doc_key, doc_order |-> found.doc_idx,
                position |-> _find_position_robust(self_doc_content, found.doc_key,
                                                   FragmentOf(entry.src))]
          ELSE [page_number |-> entry.page_number, src |-> entry.src,
                doc_href |-> BaseHref(entry.src), doc_order |-> NotInSpineOrder,
                position |-> 0] :
            found \in {_find_doc_key(BaseHref(entry.src), spine_docs)}})

\* EPUBParser._extract_text_between_positions
_extract_text_between_positions(self_doc_content, current, has_next, next_entry, spine_docs) ==
    Only({IF Strip(slice_html) = <<>> THEN <<>>
          ELSE Strip(clean_text(get_text(slice_html))) :
            slice_html \in
                {_slice_spine_html(self_doc_content, current.doc_href,
                                   current.position,
                                   IF has_next THEN next_entry.doc_href ELSE None,
                                   IF has_next THEN next_entry.position ELSE NoneInt,
                                   spine_docs, FALSE)}})

\* key.endswith("/" + base_href)
EndsWithSlash(key, base_href) == key = "OEBPS/" \o base_href

\* The chapters of _build_chapter_position_map with their document and
\* position, before the sort.
RECURSIVE ChapterPositions(_, _, _)
ChapterPositions(self_doc_content, chapters, spine_docs) ==
    IF chapters = <<>> THEN <<>>
    ELSE LET chapter == Head(chapters)
             src == chapter.id
             base_href == BaseHref(src)
             keys == DocOrderKeys(spine_docs)
             hit == FirstIndex({i \in 1..Len(keys) :
                                   \/ keys[i] = base_href
                                   \/ EndsWithSlash(keys[i], base_href)
                                   \/ unquote(keys[i]) = base_href
                                   \/ EndsWithSlash(unquote(keys[i]), base_href)})
         IN (IF src = "" \/ src = PrefixSrc \/ hit = 0 THEN <<>>
             ELSE <<[doc_href |-> keys[hit],
                     position |-> _find_position_robust(self_doc_content, keys[hit],
                                                        FragmentOf(src)),
                     doc_order |-> DocOrder(spine_docs)[keys[hit]],
                     chapter_id |-> chapter.id,
                     chapter_title |-> chapter.title]>>)
                \o ChapterPositions(self_doc_content, Tail(chapters), spine_docs)

\* EPUBParser._build_chapter_position_map
_build_chapter_position_map(self_doc_content, chapters, spine_docs) ==
    SortByPosition(ChapterPositions(self_doc_content, chapters, spine_docs))

\* The loop of _find_chapter_for_position from the element of index i on,
\* result being what it has found so far.
RECURSIVE FindChapterFrom(_, _, _, _, _)
FindChapterFrom(doc_href, position, chapter_map, i, result) ==
    IF i > Len(chapter_map) THEN result
    ELSE IF chapter_map[i].doc_href = doc_href /\ chapter_map[i].position <= position
    THEN FindChapterFrom(doc_href, position, chapter_map, i + 1,
                         [chapter_id |-> chapter_map[i].chapter_id,
                          chapter_title |-> chapter_map[i].chapter_title])
    ELSE IF chapter_map[i].doc_href = doc_href /\ chapter_map[i].position > position
    THEN result
    ELSE FindChapterFrom(doc_href, position, chapter_map, i + 1, result)

\* A _find_chapter_for_position that takes the first chapter of the
\* document at or before the position.
_find_chapter_for_position_first(doc_href, position, chapter_map) ==
    Only({IF hit = 0 THEN [chapter_id |-> None, chapter_title |-> NoneText]
          ELSE [chapter_id |-> chapter_map[hit].chapter_id,
                chapter_title |-> chapter_map[hit].chapter_title] :
            hit \in {FirstIndex({i \in 1..Len(chapter_map) :
                                    /\ chapter_map[i].doc_href = doc_href
                                    /\ chapter_map[i].position <= position})}})

\* EPUBParser._find_chapter_for_position
_find_chapter_for_position(doc_href, position, chapter_map) ==
    FindChapterFrom(doc_href, position, chapter_map, 1,
                    [chapter_id |-> None, chapter_title |-> NoneText])

\* page_entries with doc_href, doc_order and position, sorted.
SortedPageEntries(self_doc_content, page_entries, spine_docs) ==
    SortByPosition([i \in 1..Len(page_entries) |->
                       ResolvePageEntry(self_doc_content, page_entries[i],
                                        spine_docs)])

\* A Page of the i-th sorted entry that is numbered by its place in the
\* list instead of by the label of the entry.
PageOfEntryRenumbered(self_doc_content, page_entries, i, chapter_map, spine_docs) ==
    Only({[page_number |-> <<ToString(i)>>,
           text |-> text,
           char_count |-> calculate_text_length(text),
           source |-> "EPUB_PAGE_LIST",
           chapter_id |-> chapter.chapter_id,
           chapter_title |-> chapter.chapter_title] :
            text \in {_extract_text_between_positions(
                          self_doc_content, page_entries[i],
                          i + 1 <= Len(page_entries),
                          page_entries[IF i + 1 <= Len(page_entries)
                                       THEN i + 1 ELSE i],
                          spine_docs)},
            chapter \in {_find_chapter_for_position(page_entries[i].doc_href,
                                                    page_entries[i].position,
                                                    chapter_map)}})

\* The Page of the i-th sorted entry.
PageOfEntry(self_doc_content, page_entries, i, chapter_map, spine_docs) ==
    Only({[page_number |-> page_entries[i].page_number,
           text |-> text,
           char_count |-> calculate_text_length(text),
           source |-> "EPUB_PAGE_LIST",
           chapter_id |-> chapter.chapter_id,
           chapter_title |-> chapter.chapter_title] :
            text \in {_extract_text_between_positions(
                          self_doc_content, page_entries[i],
                          i + 1 <= Len(page_entries),
                          page_entries[IF i + 1 <= Len(page_entries)
                                       THEN i + 1 ELSE i],
                          spine_docs)},
            chapter \in {_find_chapter_for_position(page_entries[i].doc_href,
                                                    page_entries[i].position,
                                                    chapter_map)}})

\* "Extract text for each page": the pages of the sorted entries, given
\* what get_chapters() returned.
PagesOfEntries(b, got, page_entries) ==
    IF got.raised THEN got
    ELSE Only({[got EXCEPT !.val =
                   [i \in 1..Len(page_entries) |->
                       PageOfEntry(got.self.doc_content, page_entries, i,
                                   chapter_map, b.spine)]] :
                 chapter_map \in {_build_chapter_position_map(
                                      got.self.doc_content, got.val, b.spine)}})

\* _get_epub_page_list once the navigation is processed (r): the entries
\* are parsed and sorted, and their pages made.
PageListOf(b, r, nav_result) ==
    IF r.raised THEN [raised |-> TRUE, self |-> r.self, val |-> <<>>]
    ELSE Only({IF parsed = <<>>
               THEN [raised |-> FALSE, self |-> r.self, val |-> <<>>]
               ELSE Only({PagesOfEntries(b, got, page_entries) :
                            page_entries \in {SortedPageEntries(r.self.doc_content,
                                                                parsed, b.spine)},
                            got \in {get_chapters(b, r.self, TRUE)}}) :
                 parsed \in {ParsePageEntries(nav_result.page_list,
                                              nav_result.nav_type)}})

\* EPUBParser._get_epub_page_list: [raised, self, val].
_get_epub_page_list(b, self) ==
    Only({IF ~nav.val.found
          THEN [raised |-> FALSE, self |-> nav.self, val |-> <<>>]
          ELSE Only({PageListOf(b, r, nav.val) :
                       r \in {IF nav.self.content_texts = EmptyDict
                              THEN _process_epub_content_nav(b, nav.self)
                              ELSE [raised |-> FALSE, self |-> nav.self]}}) :
            nav \in {_find_page_list_nav(b, self)}})

\* A get_pages that adds the synthetic pages to the pages of the page list.
get_pages_with_both_strategies(b, self, synthetic_page_size, use_words) ==
    Only({IF pages.raised THEN pages
          ELSE Only({[synthetic EXCEPT !.val = pages.val \o @] :
                       synthetic \in {_generate_synthetic_pages(
                                          b, pages.self, synthetic_page_size,
                                          use_words)}}) :
            pages \in {_get_epub_page_list(b, self)}})

\* EPUBParser.get_pages: [raised, self, val].
get_pages(b, self, synthetic_page_size, use_words) ==
    Only({IF pages.raised \/ pages.val # <<>> THEN pages
          ELSE _generate_synthetic_pages(b, pages.self, synthetic_page_size,
                                         use_words) :
            pages \in {_get_epub_page_list(b, self)}})

\* A call parser.get_pages(synthetic_page_size, use_words), the first call
\* made on the parser.
GetPagesCall ==
    /\ ret.op = "__init__"
    /\ \E synthetic_page_size \in 1..MaxPageSize :
       \E use_words \in BOOLEAN :
       \E r \in {get_pages(book, Self, synthetic_page_size, use_words)} :
        /\ Becomes(r.self)
        /\ ret' = [op |-> "get_pages",
                   synthetic_page_size |-> synthetic_page_size,
                   use_words |-> use_words, raised |-> r.raised, val |-> r.val]

----------------------------------------------------------------------------
(* Page extraction: EPUBParser.extract_pages.  The loop over the selected  *)
(* pages carries [raised, self, parts, current_chapter, written]: written  *)
(* lists the pages whose text went to parts, for the properties to read.   *)

\* The default of synthetic_page_size.
DefaultPageSize == 2000

\* The literal that opens a page marker.
PageMarker == "<<PAGE: "
\* The literal that closes a marker.
MarkerEnd == ">>"

\* page_numbers = None
AllPages == [is_none |-> TRUE, list |-> <<>>]

\* pages_by_number[num]: the last page that has the number.
PageByNumber(pages, num) ==
    pages[CHOOSE i \in 1..Len(pages) :
             /\ pages[i].page_number = num
             /\ \A j \in (i + 1)..Len(pages) : pages[j].page_number # num]

\* [pages_by_number[num] for num in page_numbers if num in pages_by_number]
RECURSIVE SelectPages(_, _)
SelectPages(pages, list) ==
    IF list = <<>> THEN <<>>
    ELSE (IF \E i \in 1..Len(pages) : pages[i].page_number = Head(list)
          THEN <<PageByNumber(pages, Head(list))>> ELSE <<>>)
             \o SelectPages(pages, Tail(list))

\* The chapter title part, when the chapter changes.
ChapterPart(parts, current_chapter) ==
    IF parts # <<>>
    THEN <<"\n", "\n", "\n", "\n">> \o current_chapter \o <<"\n", "\n">>
    ELSE current_chapter \o <<"\n", "\n">>

\* f"<<PAGE: {page.page_number}>>\n\n{cleaned_text}"
PagePart(page, cleaned_text) ==
    <<PageMarker>> \o page.page_number \o <<MarkerEnd, "\n", "\n">>
        \o cleaned_text

\* "Add chapter title when chapter changes" to the end of the loop body,
\* page_text being the text of the page after the stripping.
AppendPage(st, page, page_text, deduplicate_chapter_titles) ==
    LET changes == /\ TruthyText(page.chapter_title)
                   /\ page.chapter_title # st.current_chapter
        with_title == IF changes
                      THEN Append(st.parts,
                                  ChapterPart(st.parts, page.chapter_title))
                      ELSE st.parts
        cleaned_text ==
            IF deduplicate_chapter_titles /\ TruthyText(page.chapter_title)
            THEN _remove_duplicate_title_line(page_text, page.chapter_title)
            ELSE page_text
    IN [st EXCEPT !.parts = Append(with_title, PagePart(page, cleaned_text)),
                  !.current_chapter = IF changes THEN page.chapter_title ELSE @,
                  !.written = Append(@, page)]

\* The loop body once _is_toc_or_front_matter has answered, when skip_toc.
AfterTocCheck(b, st, page, is_toc, deduplicate_chapter_titles, pick) ==
    IF is_toc.raised THEN [st EXCEPT !.raised = TRUE, !.self = is_toc.self]
    ELSE Only({
        IF stripped.raised
        THEN [st EXCEPT !.raised = TRUE, !.self = stripped.self]
        ELSE IF is_toc.val /\ Strip(stripped.val) = <<>>
        THEN [st EXCEPT !.self = stripped.self]
        ELSE IF Strip(stripped.val) = <<>>
        THEN [st EXCEPT !.self = stripped.self]
        ELSE AppendPage([st EXCEPT !.self = stripped.self], page, stripped.val,
                        deduplicate_chapter_titles) :
          stripped \in {_strip_toc_from_page(b, is_toc.self, page.text, pick)}})

\* The body of "for page in selected".
ExtractPage(b, st, page, deduplicate_chapter_titles, skip_toc, pick) ==
    IF st.raised \/ page.text = <<>> THEN st
    ELSE IF ~skip_toc
    THEN AppendPage(st, page, page.text, deduplicate_chapter_titles)
    ELSE IF /\ TruthyText(page.chapter_title)
            /\ Upper(page.chapter_title) \in front_matter_keywords
    THEN st
    ELSE Only({AfterTocCheck(b, st, page, is_toc, deduplicate_chapter_titles,
                             pick) :
                 is_toc \in {_is_toc_or_front_matter(b, st.self, page)}})

\* "for page in selected"
RECURSIVE ExtractSelected(_, _, _, _, _, _)
ExtractSelected(b, st, selected, deduplicate_chapter_titles, skip_toc, pick) ==
    IF selected = <<>> THEN st
    ELSE Only({ExtractSelected(b, next, Tail(selected),
                               deduplicate_chapter_titles, skip_toc, pick) :
                 next \in {ExtractPage(b, st, Head(selected),
                                       deduplicate_chapter_titles, skip_toc,
                                       pick)}})

\* "\n\n".join(parts)
RECURSIVE JoinBlocks(_)
JoinBlocks(parts) ==
    IF parts = <<>> THEN <<>>
    ELSE IF Len(parts) = 1 THEN parts[1]
    ELSE parts[1] \o <<"\n", "\n">> \o JoinBlocks(Tail(parts))

\* extract_pages once get_pages() has answered.
ExtractFrom(b, pages, page_numbers, deduplicate_chapter_titles, skip_toc, pick) ==
    IF pages.raised
    THEN [raised |-> TRUE, self |-> pages.self, val |-> <<>>, written |-> <<>>]
    ELSE Only({[raised |-> st.raised, self |-> st.self,
                val |-> IF st.raised THEN <<>> ELSE JoinBlocks(st.parts),
                written |-> st.written] :
                 st \in {ExtractSelected(
                             b,
                             [raised |-> FALSE, self |-> pages.self,
                              parts |-> <<>>, current_chapter |-> NoneText,
                              written |-> <<>>],
                             IF page_numbers.is_none THEN pages.val
                             ELSE SelectPages(pages.val, page_numbers.list),
                             deduplicate_chapter_titles, skip_toc, pick)}})

\* EPUBParser.extract_pages: [raised, self, val, written].
extract_pages(b, self, page_numbers, deduplicate_chapter_titles, skip_toc, pick) ==
    Only({ExtractFrom(b, pages, page_numbers, deduplicate_chapter_titles,
                      skip_toc, pick) :
            pages \in {get_pages(b, self, DefaultPageSize, FALSE)}})

----------------------------------------------------------------------------
(* Books with a page list, and the calls get_pages on them.                *)

\* The labels of the page-list entries, as written in the page list.
PageLabels == {<<"i", "v">>, <<"1", " ">>}

\* The targets of the page-list entries.
PageSrcs == {"d1", "d1#a", "d2", NotInSpine}

\* The entries of a page list: a label and a target, or a label alone.
PageItems ==
    {[label |-> label, has_target |-> TRUE, src |-> src] :
        label \in PageLabels, src \in PageSrcs}
        \cup {[label |-> <<"1", " ">>, has_target |-> FALSE, src |-> None]}

\* The page lists.
PageLists == UNION {[1..n -> PageItems] : n \in 0..MaxPageEntries}

\* The <li> elements of a page-list <nav>.
HtmlPageItems(items) ==
    [i \in 1..Len(items) |->
        [has_href |-> items[i].has_target, href |-> items[i].src,
         link_text |-> items[i].label, has_span |-> FALSE, span_text |-> <<>>,
         li_text |-> <<>>, children |-> <<>>]]

\* The pageTarget elements of an NCX pageList.
NcxPageItems(items) ==
    [i \in 1..Len(items) |->
        [has_label |-> TRUE, label_text |-> items[i].label,
         has_src |-> items[i].has_target, src |-> items[i].src,
         children |-> <<>>]]

\* A page-list <nav> holding the entries.
PageListNav(items) ==
    [epub_type |-> "page-list", has_ol |-> TRUE, ol_direct |-> TRUE,
     ol |-> HtmlPageItems(items)]

\* Where a book keeps its page list.
PageListKinds == {"nav_html", "ncx", "document", "none"}

\* The tables of contents of the books with a page list.
PageBookTocs ==
    {<<>>,
     <<[src |-> "d1", title |-> NavTitle, children |-> <<>>]>>,
     <<[src |-> "d1#a", title |-> NavTitle, children |-> <<>>],
       [src |-> "d2", title |-> <<"U">>, children |-> <<>>]>>,
     <<[src |-> "d1", title |-> NavTitle, children |-> <<>>],
       [src |-> "d1#a", title |-> <<"U">>, children |-> <<>>]>>}

\* The book with the spine, the document contents, the table of contents
\* and the page list given, the page list kept as kind says: beside the
\* toc in the NAV HTML item, in the NCX that holds the navMap, or in a
\* document of its own.
MakePageBook(spine, contents, kind, forest, items) ==
    LET plain == MakeBook(spine, contents,
                          IF kind = "ncx" THEN "ncx_in_nav" ELSE "nav_html",
                          forest)
    IN IF kind = "nav_html"
       THEN [plain EXCEPT !.nav_items[1].soup.navs = @ \o <<PageListNav(items)>>]
       ELSE IF kind = "ncx"
       THEN [plain EXCEPT !.nav_items[1].soup.has_pageList = TRUE,
                          !.nav_items[1].soup.pageList = NcxPageItems(items)]
       ELSE IF kind = "document"
       THEN [plain EXCEPT !.documents =
                Append(@, [name |-> "pages", content |-> <<>>,
                           soup |-> [NoSoup EXCEPT !.navs = <<PageListNav(items)>>]])]
       ELSE plain

\* EPUBParser(path) on a book with a page list.
PagesInit ==
    \E contents \in [1..NavDocs -> UNION {DocShapes(k) : k \in 1..NavDocs}] :
    \E kind \in PageListKinds :
    \E forest \in PageBookTocs :
    \E items \in PageLists :
        /\ \A k \in 1..NavDocs : contents[k] \in DocShapes(k)
        /\ contents[1] # <<DocChar(1, 1)>>
        /\ kind = "none" => items = <<>>
        /\ Constructed(MakePageBook(SpineOf(NavDocs), contents, kind, forest, items))

PagesNext == GetPagesCall

SpecPages == PagesInit /\ [][PagesNext]_vars

----------------------------------------------------------------------------
(* Books with chapters and pages, and the calls extract_pages on them.     *)

\* The tables of contents of the books: one chapter titled as its first
\* line, a chapter after an Introduction, two chapters with one title, two
\* chapters of one document.
ExtractTocs ==
    {<<[src |-> "d1", title |-> <<DocChar(1, 1)>>, children |-> <<>>]>>,
     <<[src |-> "d1#a", title |-> <<DocChar(1, 2)>>, children |-> <<>>],
       [src |-> "d2", title |-> Introduction, children |-> <<>>]>>,
     <<[src |-> "d1", title |-> NavTitle, children |-> <<>>],
       [src |-> "d2", title |-> NavTitle, children |-> <<>>]>>,
     <<[src |-> "d1", title |-> NavTitle, children |-> <<>>],
       [src |-> "d1#a", title |-> <<"U">>, children |-> <<>>]>>}

\* The values of page_numbers: None, and lists of page numbers.
PageSelections ==
    {AllPages,
     [is_none |-> FALSE, list |-> <<<<"1">>>>],
     [is_none |-> FALSE, list |-> <<<<"i", "v">>, <<"1">>>>]}

\* EPUBParser(path) on a book with chapters, with or without a page list.
ExtractInit ==
    \E contents \in [1..NavDocs -> UNION {DocShapes(k) : k \in 1..NavDocs}] :
    \E kind \in {"nav_html", "none"} :
    \E forest \in ExtractTocs :
    \E items \in PageLists :
        /\ \A k \in 1..NavDocs : contents[k] \in DocShapes(k)
        /\ contents[1] # <<DocChar(1, 1)>>
        /\ kind = "none" => items = <<>>
        /\ Constructed(MakePageBook(SpineOf(NavDocs), contents, kind, forest, items))

\* A call parser.extract_pages(page_numbers, deduplicate_chapter_titles,
\* skip_toc), the first call made on the parser.
ExtractPagesCall ==
    /\ ret.op = "__init__"
    /\ \E page_numbers \in PageSelections :
       \E deduplicate_chapter_titles \in BOOLEAN :
       \E skip_toc \in BOOLEAN :
       \E pick \in IF skip_toc THEN 1..MaxTitles ELSE {1} :
       \E r \in {extract_pages(book, Self, page_numbers,
                               deduplicate_chapter_titles, skip_toc, pick)} :
        /\ Becomes(r.self)
        /\ ret' = [op |-> "extract_pages", page_numbers |-> page_numbers,
                   deduplicate_chapter_titles |-> deduplicate_chapter_titles,
                   skip_toc |-> skip_toc, raised |-> r.raised, val |-> r.val,
                   written |-> r.written]

ExtractNext == ExtractPagesCall

SpecExtract == ExtractInit /\ [][ExtractNext]_vars

----------------------------------------------------------------------------
(* Texts and titles, and the calls _remove_duplicate_title_line on them.   *)

\* The longest text given to _remove_duplicate_title_line.
MaxTextLen == 5

\* The texts: a title in either case, another letter, spaces and newlines.
DedupTexts ==
    UNION {[1..n -> {"A", "a", "B", " ", "\n"}] : n \in 0..MaxTextLen}

\* The titles.
DedupTitles == {<<"A">>, <<"a">>, <<"A", " ", "B">>, <<" ", "A">>, <<" ">>}

\* A parser made without a container, as the test makes it.
DedupInit == Constructed([spine |-> <<>>])

\* A call parser._remove_duplicate_title_line(text, title).
RemoveDuplicateTitleLineCall ==
    /\ ret.op = "__init__"
    /\ \E text \in DedupTexts :
       \E title \in DedupTitles :
        /\ ret' = [op |-> "_remove_duplicate_title_line", text |-> text,
                   title |-> title,
                   val |-> _remove_duplicate_title_line(text, title)]
        /\ UNCHANGED <<book, doc_content, content_texts, content_lengths,
                       processed_nav_structure, _nav_processed,
                       _page_list_nav, _page_list_nav_checked,
                       _upper_title_cache, files, _bookmarks>>

DedupNext == RemoveDuplicateTitleLineCall

SpecDedup == DedupInit /\ [][DedupNext]_vars

----------------------------------------------------------------------------
(* Headings and titles, and the calls _remove_duplicate_title_line on      *)
(* them.                                                                   *)

\* The longest text with a heading.
MaxHeadingLen == 4

\* The texts: letters, a full stop, a space, a newline, the word Chapter
\* and the long word.
HeadingTexts ==
    UNION {[1..n -> {"A", "B", ".", " ", "\n", "Chapter", LongWord}] :
             n \in 0..MaxHeadingLen}

\* The titles: a letter, the long word, three letters.
HeadingTitles == {<<"A">>, <<"B">>, <<LongWord>>, <<"A", "B", "A">>}

\* A parser made without a container.
HeadingInit == Constructed([spine |-> <<>>])

\* A call parser._remove_duplicate_title_line(text, title) on a text with
\* a heading.
RemoveHeadingLineCall ==
    /\ ret.op = "__init__"
    /\ \E text \in HeadingTexts :
       \E title \in HeadingTitles :
        /\ ret' = [op |-> "_remove_duplicate_title_line", text |-> text,
                   title |-> title,
                   val |-> _remove_duplicate_title_line(text, title)]
        /\ UNCHANGED <<book, doc_content, content_texts, content_lengths,
                       processed_nav_structure, _nav_processed,
                       _page_list_nav, _page_list_nav_checked,
                       _upper_title_cache, files, _bookmarks>>

HeadingNext == RemoveHeadingLineCall

SpecHeadings == HeadingInit /\ [][HeadingNext]_vars

----------------------------------------------------------------------------
(* A book with two chapters and pages that list chapter titles, and the    *)
(* calls _is_toc_or_front_matter and _strip_toc_from_page on them.         *)

\* The most lines of a page, the blank lines between them not counted.
MaxTocLines == 6

\* The lines of a page: a chapter title, the other chapter title in lower
\* case with a space after it, a chapter title followed by text, a line
\* that is no title.
TocLineKinds == {<<"T">>, <<"u", " ">>, <<"T", " ", "B">>, <<"B">>}

\* The numbers of blank lines between two lines of a page.
TocGaps == {0, 3}

\* The lines with gap blank lines between each two of them.
RECURSIVE Spread(_, _)
Spread(lines, gap) ==
    IF Len(lines) <= 1 THEN lines
    ELSE <<Head(lines)>> \o [i \in 1..gap |-> <<>>] \o Spread(Tail(lines), gap)

\* The texts of the pages.
TocPageTexts ==
    {JoinLines(Spread(lines, gap)) :
        lines \in UNION {[1..n -> TocLineKinds] : n \in 0..MaxTocLines},
        gap \in TocGaps}

\* The chapter titles of the pages: none, a chapter title, a front-matter
\* keyword.
TocPageTitles == {NoneText, NavTitle, Introduction}

\* EPUBParser(path) on a book with the chapters "T" and "U".
TocInit ==
    Constructed(MakeBook(SpineOf(NavDocs),
                         [k \in 1..NavDocs |-> <<DocChar(k, 1)>>],
                         "nav_html",
                         <<[src |-> "d1", title |-> NavTitle, children |-> <<>>],
                           [src |-> "d2", title |-> <<"U">>, children |-> <<>>]>>))

\* A call parser._is_toc_or_front_matter(page), the first call made on the
\* parser.
IsTocOrFrontMatterCall ==
    /\ ret.op = "__init__"
    /\ \E text \in TocPageTexts :
       \E chapter_title \in TocPageTitles :
       \E r \in {_is_toc_or_front_matter(
                     book, Self,
                     [page_number |-> <<"temp">>, text |-> text,
                      char_count |-> calculate_text_length(text),
                      chapter_title |-> chapter_title])} :
        /\ Becomes(r.self)
        /\ ret' = [op |-> "_is_toc_or_front_matter", text |-> text,
                   chapter_title |-> chapter_title, raised |-> r.raised,
                   val |-> r.val]

\* A call parser._strip_toc_from_page(page_text), the first call made on
\* the parser.
StripTocFromPageCall ==
    /\ ret.op = "__init__"
    /\ \E page_text \in TocPageTexts :
       \E pick \in 1..MaxTitles :
       \E r \in {_strip_toc_from_page(book, Self, page_text, pick)} :
        /\ Becomes(r.self)
        /\ ret' = [op |-> "_strip_toc_from_page", text |-> page_text,
                   raised |-> r.raised, val |-> r.val]

TocNext ==
    \/ IsTocOrFrontMatterCall
    \/ StripTocFromPageCall

SpecToc == TocInit /\ [][TocNext]_vars

----------------------------------------------------------------------------
(* Chapter extraction: EPUBParser.extract_chapters.  The loops carry       *)
(* [raised, self, ...] as get_chapters does.                               *)

\* chapter_ids = None
AllChapters == [is_none |-> TRUE, list |-> <<>>]

\* The id is in chapter_ids.
IdIn(id, list) == \E k \in 1..Len(list) : list[k] = id

\* A selection that keeps, for each id of chapter_ids, the first chapter
\* that has it.
SelectChaptersOncePerId(chapters, chapter_ids) ==
    IF chapter_ids.is_none THEN chapters
    ELSE LET kept == {i \in 1..Len(chapters) :
                        /\ IdIn(chapters[i].id, chapter_ids.list)
                        /\ \A j \in 1..(i - 1) : chapters[j].id # chapters[i].id}
             RECURSIVE From(_)
             From(i) == IF i > Len(chapters) THEN <<>>
                        ELSE (IF i \in kept THEN <<chapters[i]>> ELSE <<>>)
                                 \o From(i + 1)
         IN From(1)

\* selected = chapters, or [ch for ch in chapters if ch.id in chapter_ids]
SelectChapters(chapters, chapter_ids) ==
    IF chapter_ids.is_none THEN chapters
    ELSE LET RECURSIVE From(_)
             From(i) == IF i > Len(chapters) THEN <<>>
                        ELSE (IF IdIn(chapters[i].id, chapter_ids.list)
                              THEN <<chapters[i]>> ELSE <<>>)
                                 \o From(i + 1)
         IN From(1)

\* Page(page_number="temp", text=chapter.text, chapter_title=chapter.title)
TempPage(chapter) ==
    [page_number |-> <<"temp">>, text |-> chapter.text,
     char_count |-> chapter.char_count, chapter_title |-> chapter.title]

\* "Skip TOC/front matter if requested": the loop over selected, st being
\* [raised, self, filtered].
RECURSIVE SkipFrontMatter(_, _, _)
SkipFrontMatter(b, st, selected) ==
    IF selected = <<>> \/ st.raised THEN st
    ELSE Only({SkipFrontMatter(
                   b,
                   [raised |-> is_toc.raised, self |-> is_toc.self,
                    filtered |-> IF is_toc.raised \/ is_toc.val
                                 THEN st.filtered
                                 ELSE Append(st.filtered, Head(selected))],
                   Tail(selected)) :
                 is_toc \in {_is_toc_or_front_matter(b, st.self,
                                                     TempPage(Head(selected)))}})

\* The part of the i-th selected chapter (i from 0), "" when it has no text.
ChapterTextPart(chapter, i, deduplicate_chapter_titles, include_chapter_title) ==
    LET cleaned_text ==
            IF deduplicate_chapter_titles
            THEN _remove_duplicate_title_line(chapter.text, chapter.title)
            ELSE chapter.text
    IN IF chapter.text = <<>> THEN <<>>
       ELSE IF i = 0 /\ include_chapter_title
       THEN chapter.title \o <<"\n", "\n">> \o cleaned_text
       ELSE IF i > 0 /\ include_chapter_title
       THEN <<"\n", "\n", "\n", "\n">> \o chapter.title \o <<"\n", "\n">>
                \o cleaned_text
       ELSE cleaned_text

\* "Combine text with chapter titles": "".join(parts), from the i-th
\* selected chapter on (i from 0).
RECURSIVE CombineChapters(_, _, _, _)
CombineChapters(selected, i, deduplicate_chapter_titles, include_chapter_title) ==
    IF i >= Len(selected) THEN <<>>
    ELSE ChapterTextPart(selected[i + 1], i, deduplicate_chapter_titles,
                         include_chapter_title)
             \o CombineChapters(selected, i + 1, deduplicate_chapter_titles,
                                include_chapter_title)

\* extract_chapters once get_chapters() has answered.
ExtractChaptersFrom(b, got, chapter_ids, deduplicate_chapter_titles, skip_toc, include_chapter_title) ==
    IF got.raised THEN [raised |-> TRUE, self |-> got.self, val |-> <<>>]
    ELSE Only({[raised |-> st.raised, self |-> st.self,
                val |-> IF st.raised THEN <<>>
                        ELSE CombineChapters(st.filtered, 0,
                                             deduplicate_chapter_titles,
                                             include_chapter_title)] :
                 st \in {IF skip_toc
                         THEN SkipFrontMatter(
                                  b,
                                  [raised |-> FALSE, self |-> got.self,
                                   filtered |-> <<>>],
                                  SelectChapters(got.val, chapter_ids))
                         ELSE [raised |-> FALSE, self |-> got.self,
                               filtered |-> SelectChapters(got.val,
                                                           chapter_ids)]}})

\* EPUBParser.extract_chapters: [raised, self, val].
extract_chapters(b, self, chapter_ids, deduplicate_chapter_titles, skip_toc, include_chapter_title) ==
    Only({ExtractChaptersFrom(b, got, chapter_ids, deduplicate_chapter_titles,
                              skip_toc, include_chapter_title) :
            got \in {get_chapters(b, self, TRUE)}})

----------------------------------------------------------------------------
(* One parser and the calls made on it, one after another, in any order:   *)
(* ret is the last call and, in first, the list that the first successful  *)
(* get_chapters() returned.                                                *)

\* Tables of contents: a chapter after content of its own document and a
\* chapter titled Introduction, a chapter in a chapter, two entries with one
\* target.
CallsTocs ==
    {<<[src |-> "d1#a", title |-> <<DocChar(1, 2)>>, children |-> <<>>],
       [src |-> "d2", title |-> Introduction, children |-> <<>>]>>,
     <<[src |-> "d1", title |-> NavTitle,
        children |-> <<[src |-> "d2", title |-> <<"U">>,
                        children |-> <<>>]>>]>>,
     <<[src |-> "d1", title |-> NavTitle, children |-> <<>>],
       [src |-> "d1", title |-> <<"U">>, children |-> <<>>]>>}

\* Page lists: none, an empty one, one page at the anchor.
CallsPageLists ==
    {[kind |-> "none", items |-> <<>>],
     [kind |-> "nav_html", items |-> <<>>],
     [kind |-> "nav_html",
      items |-> <<[label |-> <<"1", " ">>, has_target |-> TRUE,
                   src |-> "d1#a"]>>]}

\* No get_chapters() has returned yet.
NoFirst == [known |-> FALSE, include_text |-> FALSE, val |-> <<>>]

\* The first list, as the last call left it.
FirstChapters == IF ret.op = "__init__" THEN NoFirst ELSE ret.first

\* EPUBParser(path) on a book with chapters, with or without a page list.
CallsInit ==
    \E first \in DocShapes(1) :
    \E second \in DocShapes(2) :
    \E forest \in CallsTocs :
    \E pages \in CallsPageLists :
        Constructed(MakePageBook(
            SpineOf(NavDocs),
            [k \in 1..NavDocs |-> IF k = 1 THEN first
                                  ELSE IF k = 2 THEN second ELSE <<>>],
            pages.kind, forest, pages.items))

\* parser.get_chapters(include_text)
CallGetChapters ==
    \E include_text \in BOOLEAN :
    \E r \in {get_chapters(book, Self, include_text)} :
        /\ Becomes(r.self)
        /\ ret' = [op |-> "get_chapters", include_text |-> include_text,
                   raised |-> r.raised, val |-> r.val,
                   first |-> IF FirstChapters.known \/ r.raised
                             THEN FirstChapters
                             ELSE [known |-> TRUE,
                                   include_text |-> include_text,
                                   val |-> r.val]]

\* The ids of the chapters, in list order.
ChapterIds(chapters) == [i \in 1..Len(chapters) |-> chapters[i].id]

\* parser.extract_chapters(chapter_ids, deduplicate_chapter_titles,
\* skip_toc, include_chapter_title), chapter_ids being None or the id of the
\* first document.
CallExtractChapters ==
    \E chapter_ids \in {AllChapters, [is_none |-> FALSE, list |-> <<"d1">>]} :
    \E deduplicate_chapter_titles \in BOOLEAN :
    \E skip_toc \in BOOLEAN :
    \E include_chapter_title \in BOOLEAN :
    \E r \in {extract_chapters(book, Self, chapter_ids,
                               deduplicate_chapter_titles, skip_toc,
                               include_chapter_title)} :
        /\ Becomes(r.self)
        /\ ret' = [op |-> "extract_chapters", chapter_ids |-> chapter_ids,
                   deduplicate_chapter_titles |-> deduplicate_chapter_titles,
                   skip_toc |-> skip_toc,
                   include_chapter_title |-> include_chapter_title,
                   raised |-> r.raised, val |-> r.val,
                   first |-> FirstChapters]

\* parser.get_pages(use_words=use_words)
CallGetPages ==
    \E use_words \in BOOLEAN :
    \E r \in {get_pages(book, Self, DefaultPageSize, use_words)} :
        /\ Becomes(r.self)
        /\ ret' = [op |-> "get_pages", use_words |-> use_words,
                   raised |-> r.raised, val |-> r.val,
                   first |-> FirstChapters]

\* parser.extract_pages(None, deduplicate_chapter_titles, skip_toc)
CallExtractPages ==
    \E deduplicate_chapter_titles \in BOOLEAN :
    \E skip_toc \in BOOLEAN :
    \E pick \in IF skip_toc THEN 1..MaxTitles ELSE {1} :
    \E r \in {extract_pages(book, Self, AllPages, deduplicate_chapter_titles,
                            skip_toc, pick)} :
        /\ Becomes(r.self)
        /\ ret' = [op |-> "extract_pages",
                   deduplicate_chapter_titles |-> deduplicate_chapter_titles,
                   skip_toc |-> skip_toc, raised |-> r.raised, val |-> r.val,
                   first |-> FirstChapters]

\* parser.has_page_list()
CallHasPageList ==
    \E r \in {has_page_list(book, Self)} :
        /\ Becomes(r.self)
        /\ ret' = [op |-> "has_page_list", raised |-> FALSE, val |-> r.val,
                   first |-> FirstChapters]

CallsNext ==
    \/ CallGetChapters
    \/ CallExtractChapters
    \/ CallGetPages
    \/ CallExtractPages
    \/ CallHasPageList

SpecCalls == CallsInit /\ [][CallsNext]_vars

----------------------------------------------------------------------------
(* Range strings of the command line: cli.parse_chapter_range.  A range     *)
(* string is a sequence of characters.                                     *)

\* The decimal digits and their values.
Digits == <<"0", "1", "2", "3", "4", "5", "6", "7", "8", "9">>

\* The character is a decimal digit.
IsDigit(c) == \E d \in 1..Len(Digits) : Digits[d] = c

\* The value of a digit.
DigitValue(c) == (CHOOSE d \in 1..Len(Digits) : Digits[d] = c) - 1

\* The value of a sequence of digits.
RECURSIVE Decimal(_)
Decimal(s) ==
    IF s = <<>> THEN 0
    ELSE 10 * Decimal(SubSeq(s, 1, Len(s) - 1)) + DigitValue(s[Len(s)])

\* int(s): white space around, a minus sign, digits; ValueError otherwise.
\* [raised, val].
int(s) ==
    LET t == Strip(s)
        negative == t # <<>> /\ Head(t) = "-"
        digits == IF negative THEN Tail(t) ELSE t
    IN IF digits = <<>> \/ \E i \in 1..Len(digits) : ~IsDigit(digits[i])
       THEN [raised |-> TRUE, val |-> 0]
       ELSE [raised |-> FALSE,
             val |-> IF negative THEN 0 - Decimal(digits) ELSE Decimal(digits)]

\* The index of the first sep in s, 0 when there is none.
FirstOf(s, sep) ==
    IF \E i \in 1..Len(s) : s[i] = sep
    THEN CHOOSE i \in 1..Len(s) :
            s[i] = sep /\ \A j \in 1..(i - 1) : s[j] # sep
    ELSE 0

\* s.split(sep)
RECURSIVE Split(_, _)
Split(s, sep) ==
    IF FirstOf(s, sep) = 0 THEN <<s>>
    ELSE <<SubSeq(s, 1, FirstOf(s, sep) - 1)>>
             \o Split(SubSeq(s, FirstOf(s, sep) + 1, Len(s)), sep)

\* range(start, stop) as a set.
Range(start, stop) == {n \in start..(stop - 1) : TRUE}

\* What one part adds to indices: [raised, indices].
PartIndices(part) ==
    LET stripped == Strip(part)
        dash == FirstOf(stripped, "-")
        start == int(SubSeq(stripped, 1, dash - 1))
        end == int(SubSeq(stripped, dash + 1, Len(stripped)))
        single == int(stripped)
    IN IF dash # 0
       THEN IF start.raised \/ end.raised
            THEN [raised |-> TRUE, indices |-> {}]
            ELSE [raised |-> FALSE,
                  indices |-> Range(start.val - 1, (end.val - 1) + 1)]
       ELSE IF single.raised THEN [raised |-> TRUE, indices |-> {}]
       ELSE [raised |-> FALSE, indices |-> {single.val - 1}]

\* sorted(indices)
RECURSIVE sorted(_)
sorted(indices) ==
    IF indices = {} THEN <<>>
    ELSE LET least == CHOOSE n \in indices : \A k \in indices : n <= k
         IN <<least>> \o sorted(indices \ {least})

\* cli.parse_chapter_range: [raised, val].
parse_chapter_range(range_str) ==
    LET parts == Split(range_str, ",")
        added == [i \in 1..Len(parts) |-> PartIndices(parts[i])]
    IN IF \E i \in 1..Len(parts) : added[i].raised
       THEN [raised |-> TRUE, val |-> <<>>]
       ELSE [raised |-> FALSE,
             val |-> sorted(UNION {added[i].indices : i \in 1..Len(parts)})]

----------------------------------------------------------------------------
(* Range strings, and the calls parse_chapter_range on them.               *)

\* Parts of a range string.
MaxParts == 3

\* The parts: numbers, ranges, a reversed range, a range of one, a number
\* after a space, a range without its end, a range to a negative number.
RangeParts ==
    {<<"1">>, <<"2">>, <<"3">>, <<"1", "-", "2">>, <<"3", "-", "1">>,
     <<"2", "-", "2">>, <<" ", "2">>, <<"2", "-">>, <<"1", "-", "-", "3">>,
     <<"1", "0">>}

\* ",".join(parts)
RECURSIVE JoinWithCommas(_)
JoinWithCommas(parts) ==
    IF Len(parts) = 0 THEN <<>>
    ELSE IF Len(parts) = 1 THEN parts[1]
    ELSE parts[1] \o <<",">> \o JoinWithCommas(Tail(parts))

\* The range strings.
RangeStrings ==
    {JoinWithCommas(parts) : parts \in UNION {[1..n -> RangeParts] : n \in 1..MaxParts}}

RangeInit == Constructed([spine |-> <<>>])

\* A call parse_chapter_range(range_str).
ParseChapterRangeCall ==
    \E range_str \in RangeStrings :
    \E r \in {parse_chapter_range(range_str)} :
        /\ ret' = [op |-> "parse_chapter_range", range_str |-> range_str,
                   raised |-> r.raised, val |-> r.val]
        /\ UNCHANGED <<book, doc_content, content_texts, content_lengths,
                       processed_nav_structure, _nav_processed, _page_list_nav,
                       _page_list_nav_checked, _upper_title_cache, files,
                       _bookmarks>>

RangeNext == ParseChapterRangeCall

SpecRange == RangeInit /\ [][RangeNext]_vars

----------------------------------------------------------------------------
(* Bookmarks: BookmarkManager.  A file is Missing, or holds text that is   *)
(* not JSON, or holds the JSON document json.dump writes for data; files   *)
(* is the bookmark file and its backup.                                    *)

\* "{not json"
NotJson == [exists |-> TRUE, json |-> FALSE]

\* json.dump(data, tmp): the file that holds the document.
Dumped(data) == [exists |-> TRUE, json |-> TRUE, data |-> data]

\* BookmarkManager._read_bookmarks_file: [is_none, data].
_read_bookmarks_file(file) ==
    IF file.exists /\ file.json THEN [is_none |-> FALSE, data |-> file.data]
    ELSE [is_none |-> TRUE, data |-> EmptyDict]

\* data.get("bookmarks", {})
BookmarksOf(data) ==
    IF "bookmarks" \in DOMAIN data THEN data.bookmarks ELSE EmptyDict

\* BookmarkManager._load: self._bookmarks after it.
_load(disk) ==
    LET data == _read_bookmarks_file(disk.bookmark_file)
        backup_data == _read_bookmarks_file(disk.backup)
    IN IF ~disk.bookmark_file.exists THEN EmptyDict
       ELSE IF ~data.is_none THEN BookmarksOf(data.data)
       ELSE IF disk.backup.exists /\ ~backup_data.is_none
       THEN BookmarksOf(backup_data.data)
       ELSE EmptyDict

\* A _save that writes the bookmark file and keeps no backup of it.
_save_without_backup(disk, self_bookmarks) ==
    [disk EXCEPT !.bookmark_file = Dumped([bookmarks |-> self_bookmarks])]

\* BookmarkManager._save: the files after it.
_save(disk, self_bookmarks) ==
    [bookmark_file |-> Dumped([bookmarks |-> self_bookmarks]),
     backup |-> IF disk.bookmark_file.exists THEN disk.bookmark_file
                ELSE disk.backup]

\* The working directory.
Cwd == "/t/"

\* BookmarkManager._normalize_path: str(Path(epub_path).resolve()), for
\* paths [absolute, path].
_normalize_path(epub_path) ==
    IF epub_path.absolute THEN epub_path.path ELSE Cwd \o epub_path.path

\* del d[key]
Without(d, key) == [k \in DOMAIN d \ {key} |-> d[k]]

\* BookmarkManager.save: [self_bookmarks, files].
save(disk, self_bookmarks, epub_path, bookmark) ==
    LET key == _normalize_path(epub_path)
        bookmarks == (key :> bookmark) @@ self_bookmarks
    IN [self_bookmarks |-> bookmarks, files |-> _save(disk, bookmarks)]

\* BookmarkManager.delete: [self_bookmarks, files, val].
delete(disk, self_bookmarks, epub_path) ==
    LET key == _normalize_path(epub_path)
    IN IF key \in DOMAIN self_bookmarks
       THEN [self_bookmarks |-> Without(self_bookmarks, key),
             files |-> _save(disk, Without(self_bookmarks, key)),
             val |-> TRUE]
       ELSE [self_bookmarks |-> self_bookmarks, files |-> disk, val |-> FALSE]

----------------------------------------------------------------------------
(* A bookmark file, the managers opened on it one after another, and the   *)
(* calls save and delete on them.                                          *)

\* The paths of the books.
EpubPaths ==
    {[absolute |-> FALSE, path |-> "one.epub"],
     [absolute |-> TRUE, path |-> "/t/one.epub"],
     [absolute |-> TRUE, path |-> "/t/two.epub"]}

\* asdict(bookmark) of the bookmarks saved (last_read, the time of the
\* creation, left out).
Bookmarks ==
    {[chapter_index |-> 0, line_offset |-> 0, percentage |-> 1,
      title |-> "First"],
     [chapter_index |-> 1, line_offset |-> 10, percentage |-> 5,
      title |-> "Second"]}

\* A manager is open.
Opened == ret.op # "__init__"

\* The parser's fields are not touched.
ParserUnchanged ==
    UNCHANGED <<book, doc_content, content_texts, content_lengths,
                processed_nav_structure, _nav_processed, _page_list_nav,
                _page_list_nav_checked, _upper_title_cache>>

BookmarkInit == Constructed([spine |-> <<>>])

\* BookmarkManager(bookmark_file)
BookmarkManagerCall ==
    /\ _bookmarks' = _load(files)
    /\ ret' = [op |-> "BookmarkManager"]
    /\ UNCHANGED files
    /\ ParserUnchanged

\* manager.save(epub_path, bookmark)
SaveCall ==
    /\ Opened
    /\ \E epub_path \in EpubPaths :
       \E bookmark \in Bookmarks :
       \E r \in {save(files, _bookmarks, epub_path, bookmark)} :
        /\ _bookmarks' = r.self_bookmarks
        /\ files' = r.files
        /\ ret' = [op |-> "save", epub_path |-> epub_path,
                   bookmark |-> bookmark]
    /\ ParserUnchanged

\* manager.delete(epub_path)
DeleteCall ==
    /\ Opened
    /\ \E epub_path \in EpubPaths :
       \E r \in {delete(files, _bookmarks, epub_path)} :
        /\ _bookmarks' = r.self_bookmarks
        /\ files' = r.files
        /\ ret' = [op |-> "delete", epub_path |-> epub_path, val |-> r.val]
    /\ ParserUnchanged

\* bookmark_file.write_text("{not json"), by another program.
WriteNotJson ==
    /\ files.bookmark_file.exists
    /\ files' = [files EXCEPT !.bookmark_file = NotJson]
    /\ ret' = [op |-> "write_text"]
    /\ UNCHANGED _bookmarks
    /\ ParserUnchanged

BookmarkNext ==
    \/ BookmarkManagerCall
    \/ SaveCall
    \/ DeleteCall
    \/ WriteNotJson

SpecBookmarks == BookmarkInit /\ [][BookmarkNext]_vars

----------------------------------------------------------------------------
(* BookmarkManager._save step by step, a program that is interrupted       *)
(* between two of its file operations, and the managers opened after.      *)
(* ret holds the step of the save under way, the bookmarks the bookmark    *)
(* file gave before it (previous) and those it writes (new).               *)

\* "with tempfile.NamedTemporaryFile(...) as tmp: json.dump(data, tmp)"
_save_dump(disk, self_bookmarks) ==
    [bookmark_file |-> disk.bookmark_file, backup |-> disk.backup,
     tmp |-> Dumped([bookmarks |-> self_bookmarks])]

\* "if self.bookmark_file.exists(): self.bookmark_file.replace(backup_path)"
_save_backup(disk) ==
    IF disk.bookmark_file.exists
    THEN [disk EXCEPT !.backup = disk.bookmark_file, !.bookmark_file = Missing]
    ELSE disk

\* "tmp_path.replace(self.bookmark_file)"
_save_replace(disk) ==
    [bookmark_file |-> disk.tmp, backup |-> disk.backup]

\* The files without the temporary file.
WithoutTmp(disk) ==
    [bookmark_file |-> disk.bookmark_file, backup |-> disk.backup]

\* No save is under way and a manager is open.
Idle ==
    \/ ret.op = "BookmarkManager"
    \/ ret.op \in {"save", "delete"} /\ ret.step = "done"

CrashInit == Constructed([spine |-> <<>>])

\* BookmarkManager(bookmark_file), at the start or after a program was
\* interrupted or has saved.
OpenManager ==
    /\ ret.op \in {"__init__", "interrupted"} \/ Idle
    /\ _bookmarks' = _load(files)
    /\ ret' = IF ret.op = "interrupted"
              THEN [op |-> "BookmarkManager", after |-> ret.step,
                    previous |-> ret.previous, new |-> ret.new]
              ELSE [op |-> "BookmarkManager", after |-> "none"]
    /\ UNCHANGED files
    /\ ParserUnchanged

\* manager.save(epub_path, bookmark) up to the temporary file written.
SaveDump ==
    /\ Idle
    /\ \E epub_path \in EpubPaths :
       \E bookmark \in Bookmarks :
       \E bookmarks \in {(_normalize_path(epub_path) :> bookmark) @@ _bookmarks} :
        /\ _bookmarks' = bookmarks
        /\ files' = _save_dump(files, bookmarks)
        /\ ret' = [op |-> "save", step |-> "dumped",
                   previous |-> _load(files), new |-> bookmarks]
    /\ ParserUnchanged

\* manager.delete(epub_path) of a bookmark held, up to the temporary file
\* written.
DeleteDump ==
    /\ Idle
    /\ \E epub_path \in EpubPaths :
        /\ _normalize_path(epub_path) \in DOMAIN _bookmarks
        /\ _bookmarks' = Without(_bookmarks, _normalize_path(epub_path))
        /\ files' = _save_dump(files, _bookmarks')
        /\ ret' = [op |-> "delete", step |-> "dumped",
                   previous |-> _load(files), new |-> _bookmarks']
    /\ ParserUnchanged

\* The existing bookmark file is moved to the backup.
SaveBackup ==
    /\ ret.op \in {"save", "delete"}
    /\ ret.step = "dumped"
    /\ files' = _save_backup(files)
    /\ ret' = [ret EXCEPT !.step = "backed_up"]
    /\ UNCHANGED _bookmarks
    /\ ParserUnchanged

\* The temporary file is moved into place.
SaveReplace ==
    /\ ret.op \in {"save", "delete"}
    /\ ret.step = "backed_up"
    /\ files' = _save_replace(files)
    /\ ret' = [ret EXCEPT !.step = "done"]
    /\ UNCHANGED _bookmarks
    /\ ParserUnchanged

\* The program is interrupted between two file operations of _save: the
\* manager is lost, the temporary file is left or deleted.
Interrupt ==
    /\ ret.op \in {"save", "delete"}
    /\ ret.step \in {"dumped", "backed_up"}
    /\ files' \in {files, WithoutTmp(files)}
    /\ _bookmarks' = EmptyDict
    /\ ret' = [op |-> "interrupted", step |-> ret.step,
               previous |-> ret.previous, new |-> ret.new]
    /\ ParserUnchanged

CrashNext ==
    \/ OpenManager
    \/ SaveDump
    \/ DeleteDump
    \/ SaveBackup
    \/ SaveReplace
    \/ Interrupt

SpecCrash == CrashInit /\ [][CrashNext]_vars

----------------------------------------------------------------------------
(* Books whose first document has a space in its name, percent-encoded or  *)
(* not in the spine and in the links, and the calls get_chapters on them.  *)

\* The two spellings of the name of the first document.
Spellings == {EncodedName(1), DecodedName(1)}

\* The book whose first document is named name, with the table of contents
\* given.
MakeSpelledBook(name, contents, kind, forest) ==
    [MakeBook(<<name, DocName(2)>>, contents, kind, forest)
        EXCEPT !.documents[1].name = name]

\* EPUBParser(path) on a book with an entry for each of its two documents,
\* the first with or without an anchor.
SpelledInit ==
    \E name \in Spellings :
    \E link \in Spellings :
    \E target \in {link, link \o "#" \o "a"} :
    \E first \in DocShapes(1) :
    \E second \in DocShapes(2) :
    \E kind \in {"nav_html", "ncx_item"} :
        Constructed(MakeSpelledBook(
            name,
            [k \in 1..NavDocs |-> IF k = 1 THEN first
                                  ELSE IF k = 2 THEN second ELSE <<>>],
            kind,
            <<[src |-> target, title |-> NavTitle, children |-> <<>>],
              [src |-> DocName(2), title |-> <<"U">>, children |-> <<>>]>>))

SpelledNext == GetChaptersCall

SpecSpelled == SpelledInit /\ [][SpelledNext]_vars

\* The texts of the chapters, concatenated in list order.
RECURSIVE ConcatTexts(_)
ConcatTexts(chapters) ==
    IF chapters = <<>> THEN <<>>
    ELSE Head(chapters).text \o ConcatTexts(Tail(chapters))

\* A text without its white space.
RECURSIVE NoSpace(_)
NoSpace(text) ==
    IF text = <<>> THEN <<>>
    ELSE (IF Head(text) \in Whitespace THEN <<>> ELSE <<Head(text)>>)
             \o NoSpace(Tail(text))

\* get_chapters() has returned a list of chapters with their texts.
ChaptersReturned ==
    ret.op = "get_chapters" /\ ~ret.raised /\ ret.include_text

\* C1: the texts of the chapters get_chapters() returns, concatenated in
\* list order, are the text of the spine documents concatenated in spine
\* order (compared up to white space, which the slicer strips at the ends
\* of a chapter): nothing is lost and nothing appears twice.
C1_ChapterTextsAreSpineText ==
    ChaptersReturned
    => NoSpace(ConcatTexts(ret.val))
           = NoSpace(get_text(ConcatDocs(doc_content, book.spine)))

\* The nodes of a navigation tree in pre-order, each with its depth and the
\* index in that order of its enclosing node (0 at a root); base nodes
\* come before the first one.
RECURSIVE PreOrder(_, _, _, _)
PreOrder(nav_structure, depth, enclosing, base) ==
    IF nav_structure = <<>> THEN <<>>
    ELSE LET me == base + 1
             below == PreOrder(Head(nav_structure).children, depth + 1, me, me)
         IN <<[title |-> Head(nav_structure).title, depth |-> depth,
               enclosing |-> enclosing]>>
                \o below
                \o PreOrder(Tail(nav_structure), depth, enclosing,
                            me + Len(below))

\* C5: get_chapters() returns one Chapter per node of the navigation tree,
\* in pre-order; its level is the node's depth (1 at a root), its parent_id
\* is the id of the Chapter of the enclosing node, null exactly at depth 1,
\* and that Chapter comes earlier in the list.
C5_ChaptersArePreOrder ==
    (ret.op = "get_chapters" /\ ~ret.raised)
    => LET nodes == PreOrder(processed_nav_structure, 1, 0, 0)
       IN /\ Len(ret.val) = Len(nodes)
          /\ \A i \in 1..Len(nodes) :
                /\ ret.val[i].title = nodes[i].title
                /\ ret.val[i].level = nodes[i].depth
                /\ ret.val[i].level >= 1
                /\ (ret.val[i].parent_id = None) <=> (nodes[i].depth = 1)
                /\ nodes[i].depth > 1 =>
                      /\ nodes[i].enclosing < i
                      /\ ret.val[i].parent_id = ret.val[nodes[i].enclosing].id

\* C5 witness: a list of three nested Chapters, the one at depth 3 under a
\* Chapter whose id is generated.
C5_Witness ==
    /\ ret.op = "get_chapters" /\ ~ret.raised
    /\ Len(ret.val) = 3
    /\ ret.val[3].level = 3
    /\ ret.val[3].parent_id = "chapter_1"
    /\ ret.val[2].parent_id = ret.val[1].id

\* _generate_synthetic_pages has returned pages.
PagesGenerated ==
    ret.op = "_generate_synthetic_pages" /\ ~ret.raised

\* The chapters the pages were made of: those get_chapters() returns.
ChaptersPaginated ==
    _build_chapters_from_nav(Self, processed_nav_structure, <<>>, None, 1, TRUE)

\* The sentences of a text: its sentence list without the paragraph break
\* markers.
SentenceUnits(text) ==
    SelectSeq(_split_into_sentences(text), LAMBDA unit : unit # ParagraphBreak)

\* The sentences of the texts of a list of chapters or of pages, in order.
RECURSIVE AllSentenceUnits(_)
AllSentenceUnits(items) ==
    IF items = <<>> THEN <<>>
    ELSE SentenceUnits(Head(items).text) \o AllSentenceUnits(Tail(items))

\* C6: the sentences of the synthetic pages, taken in page order, are the
\* sentences of the chapters in chapter order, none split, dropped,
\* duplicated or reordered, and a sentence larger than the page size is the
\* whole text of its page.
C6_SentencesKeptWhole ==
    PagesGenerated
    => /\ AllSentenceUnits(ret.val) = AllSentenceUnits(ChaptersPaginated)
       /\ \A i \in 1..Len(ret.val) :
             \A unit \in {SentenceUnits(ret.val[i].text)[k] :
                             k \in 1..Len(SentenceUnits(ret.val[i].text))} :
                 get_size(unit, ret.use_words) > ret.page_size
                     => ret.val[i].text = unit

\* C6 witness: pages made of a chapter of three sentences, one page holding
\* two of them and another the third, which is larger than the page size.
C6_Witness ==
    /\ PagesGenerated
    /\ \E c \in 1..Len(ChaptersPaginated) :
          Len(SentenceUnits(ChaptersPaginated[c].text)) = 3
    /\ \E i \in 1..Len(ret.val) :
          /\ Len(SentenceUnits(ret.val[i].text)) = 1
          /\ get_size(ret.val[i].text, ret.use_words) > ret.page_size
    /\ \E i \in 1..Len(ret.val) : Len(SentenceUnits(ret.val[i].text)) = 2

\* The pages made of each chapter by itself, one chapter after the other.
RECURSIVE PagesByChapter(_, _, _)
PagesByChapter(chapters, page_size, use_words) ==
    IF chapters = <<>> THEN <<>>
    ELSE Paginate(<<Head(chapters)>>, page_size, use_words)
             \o PagesByChapter(Tail(chapters), page_size, use_words)

\* A page without its number.
Unnumbered(page) ==
    [text |-> page.text, chapter_id |-> page.chapter_id,
     chapter_title |-> page.chapter_title]

\* C7: a chapter boundary forces a page flush: the synthetic pages are the
\* pages of the first chapter, then those of the second, and so on, so no
\* page holds sentences of two chapters of the list, and each page bears the
\* id and the title of the chapter its sentences come from.
C7_ChapterBoundaryFlushes ==
    PagesGenerated
    => LET by_chapter == PagesByChapter(ChaptersPaginated, ret.page_size,
                                        ret.use_words)
       IN /\ Len(ret.val) = Len(by_chapter)
          /\ \A i \in 1..Len(ret.val) :
                Unnumbered(ret.val[i]) = Unnumbered(by_chapter[i])

\* get_pages() has returned pages.
PagesReturned == ret.op = "get_pages" /\ ~ret.raised

\* The entries of the page list of the book: the <li> of the page-list
\* <nav> that hold a link with a target, the pageTarget elements of the
\* NCX pageList that hold a label and a target.
PageListEntries ==
    LET nav == SearchPageListNav(book)
    IN SelectSeq(nav.page_list,
                 LAMBDA item : IF nav.nav_type = "html" THEN item.has_href
                               ELSE item.has_label /\ item.has_src)

\* The label of an entry of the page list, without the white space around.
LabelOf(item) ==
    Strip(IF SearchPageListNav(book).nav_type = "html" THEN item.link_text
          ELSE item.label_text)

\* The target of an entry of the page list.
TargetOf(item) ==
    IF SearchPageListNav(book).nav_type = "html" THEN item.href ELSE item.src

\* C8: when the book has a page list with at least one entry, get_pages()
\* returns one Page per entry, the entries with an empty text or a document
\* not in the spine included, and the page numbers are the labels of the
\* entries, each as often as it is a label.
C8_OnePagePerEntry ==
    (PagesReturned /\ PageListEntries # <<>>)
    => /\ Len(ret.val) = Len(PageListEntries)
       /\ \A label \in {LabelOf(PageListEntries[j]) : j \in 1..Len(PageListEntries)} :
             Cardinality({i \in 1..Len(ret.val) : ret.val[i].page_number = label})
                 = Cardinality({j \in 1..Len(PageListEntries) :
                                   LabelOf(PageListEntries[j]) = label})

\* C8 witness: two pages from a page list of two entries with different
\* labels, one page with an empty text and one entry with a document that
\* is not in the spine.
C8_Witness ==
    /\ PagesReturned
    /\ Len(PageListEntries) = 2
    /\ Len(ret.val) = 2
    /\ ret.val[1].page_number # ret.val[2].page_number
    /\ \E i \in 1..2 : ret.val[i].text = <<>>
    /\ \E j \in 1..2 : BaseHref(TargetOf(PageListEntries[j])) = NotInSpine

\* C9: the pages of one get_pages() call have one source, which is the
\* page list exactly when a page-list navigation structure was found and
\* parsed into entries; otherwise every page is synthetic.
C9_OneSource ==
    PagesReturned
    => \A i \in 1..Len(ret.val) :
          ret.val[i].source =
              IF SearchPageListNav(book).found /\ PageListEntries # <<>>
              THEN "EPUB_PAGE_LIST" ELSE "SYNTHETIC"

\* C9 witness: get_pages() has returned two synthetic pages for a book
\* whose page list has no entry.
C9_Witness ==
    /\ PagesReturned
    /\ SearchPageListNav(book).found
    /\ PageListEntries = <<>>
    /\ Len(ret.val) = 2
    /\ \A i \in 1..2 : ret.val[i].source = "SYNTHETIC"

\* extract_pages() has returned a text.
TextExtracted == ret.op = "extract_pages" /\ ~ret.raised

\* The literal that opens a chapter marker.
ChapterMarker == "<<CHAPTER: "

\* The index of the first MarkerEnd of text, 0 if none.
FirstMarkerEnd(text) ==
    IF \E k \in 1..Len(text) : text[k] = MarkerEnd
    THEN CHOOSE k \in 1..Len(text) :
            text[k] = MarkerEnd /\ \A j \in 1..(k - 1) : text[j] # MarkerEnd
    ELSE 0

\* The markers of a text in order, each with what it names.
RECURSIVE MarkersOf(_)
MarkersOf(text) ==
    IF text = <<>> THEN <<>>
    ELSE IF Head(text) \in {ChapterMarker, PageMarker} /\ FirstMarkerEnd(text) # 0
    THEN <<[marker |-> Head(text),
            names |-> SubSeq(text, 2, FirstMarkerEnd(text) - 1)]>>
           \o MarkersOf(SubSeq(text, FirstMarkerEnd(text) + 1, Len(text)))
    ELSE MarkersOf(Tail(text))

\* The chapter title of the last of the first n pages that has one.
RECURSIVE ChapterBefore(_, _)
ChapterBefore(pages, n) ==
    IF n = 0 THEN NoneText
    ELSE IF TruthyText(pages[n].chapter_title) THEN pages[n].chapter_title
    ELSE ChapterBefore(pages, n - 1)

\* The markers asked of the output pages: a chapter marker where the
\* chapter changes, and a page marker for each page.
RECURSIVE MarkersAsked(_, _)
MarkersAsked(pages, n) ==
    IF n = 0 THEN <<>>
    ELSE MarkersAsked(pages, n - 1)
           \o (IF /\ TruthyText(pages[n].chapter_title)
                  /\ pages[n].chapter_title # ChapterBefore(pages, n - 1)
               THEN <<[marker |-> ChapterMarker, names |-> pages[n].chapter_title]>>
               ELSE <<>>)
           \o <<[marker |-> PageMarker, names |-> pages[n].page_number]>>

\* C10: the text of extract_pages() holds the marker "<<CHAPTER: title>>"
\* each time the chapter of the output pages changes and the marker
\* "<<PAGE: number>>" before the text of each output page, and no other
\* marker.
C10_ChapterAndPageMarkers ==
    TextExtracted
    => MarkersOf(ret.val) = MarkersAsked(ret.written, Len(ret.written))

\* The text after the marker that opens at index i of text.
AfterMarker(text, i) ==
    LET from_marker == SubSeq(text, i, Len(text))
    IN SubSeq(from_marker, FirstMarkerEnd(from_marker) + 1, Len(from_marker))

\* C11: in the text of extract_pages() no page marker is followed by
\* another page marker with nothing but white space between them, whatever
\* the page list and the options.
C11_NoEmptyPageInOutput ==
    TextExtracted
    => \A i \in 1..Len(ret.val) :
          ret.val[i] = PageMarker
          => LET rest == LStrip(AfterMarker(ret.val, i))
             IN rest = <<>> \/ Head(rest) # PageMarker

\* _remove_duplicate_title_line was called on a text whose first line
\* begins with the title followed by a space, in the same or another case.
TitleLeadsFirstLine ==
    /\ ret.op = "_remove_duplicate_title_line"
    /\ StartsWith(Lower(Split1(ret.text)[1]), Lower(ret.title) \o <<" ">>)

\* The lines after the first, with the newline that precedes them.
FollowingLines(text) ==
    IF FirstNewline(text) = 0 THEN <<>>
    ELSE SubSeq(text, FirstNewline(text), Len(text))

\* C12 as stated: the result is the text without the leading title and the
\* white space after it; the rest of the first line and the following
\* lines are unchanged.
C12_OnlyTitleRemoved ==
    TitleLeadsFirstLine
    => ret.val = LStrip(PyFrom(Split1(ret.text)[1], Len(ret.title)))
                     \o FollowingLines(ret.text)

\* C12: the result is the rest of the first line without the white space
\* around it, followed by the following lines unchanged; when only white
\* space follows the title on the first line, the first line is removed
\* with its newline.  The title is not blank.
C12_TitleRemovedRestStripped ==
    (TitleLeadsFirstLine /\ Strip(ret.title) # <<>>)
    => LET rest == Strip(PyFrom(Split1(ret.text)[1], Len(ret.title)))
       IN ret.val = IF rest # <<>> THEN rest \o FollowingLines(ret.text)
                    ELSE IF FollowingLines(ret.text) = <<>> THEN <<>>
                    ELSE Tail(FollowingLines(ret.text))

\* C12 witness: the title in another case is removed from the first of two
\* lines, and the rest of both lines is returned.
C12_Witness ==
    /\ TitleLeadsFirstLine
    /\ ret.text = <<"a", " ", "B", "\n", "B">>
    /\ ret.title = <<"A">>
    /\ ret.val = <<"B", "\n", "B">>

\* The targets of the entries of a navigation list, at every depth: the
\* href of the <li> of a NAV HTML list, the src of the navPoints of an NCX.
RECURSIVE EntryTargets(_, _)
EntryTargets(entries, nav_type) ==
    UNION {{IF nav_type = "html"
            THEN (IF entries[i].has_href THEN entries[i].href ELSE None)
            ELSE (IF entries[i].has_src THEN entries[i].src ELSE None)}
               \cup EntryTargets(entries[i].children, nav_type) :
             i \in 1..Len(entries)}

\* The entries of the navigation document chosen for the book.
ChosenEntries(b) ==
    LET chosen == ChooseNavItem(b)
    IN IF chosen.nav_type = "ncx" THEN chosen.soup.navMap
       ELSE IF TocNav(chosen.soup) = 0 THEN <<>>
       ELSE chosen.soup.navs[TocNav(chosen.soup)].ol

\* The target names a document of the spine.
InSpine(b, src) ==
    Truthy(src) /\ \E k \in 1..Len(b.spine) : b.spine[k] = BaseHref(src)

\* A navigation document was found for the book and none of its entries
\* resolves to a document of the spine.
NoEntryResolves(b) ==
    /\ ChooseNavItem(b).found
    /\ \A src \in EntryTargets(ChosenEntries(b), ChooseNavItem(b).nav_type) :
          ~InSpine(b, src)

\* C13: on a book whose navigation document has no entry that resolves to
\* a spine document, every get_chapters() call, the first and the later
\* ones, raises, returns no chapter list and leaves the parser not marked
\* as processed.
C13_UnresolvedNavigationRaises ==
    [][(NoEntryResolves(book) /\ ret'.op = "get_chapters")
       => (ret'.raised /\ ret'.val = <<>> /\ ~_nav_processed')]_vars

\* C13 witness: get_chapters() has raised on a book whose navigation
\* document was found and holds entries, none of them in the spine.
C13_Witness ==
    /\ ret.op = "get_chapters"
    /\ ret.raised
    /\ ~_nav_processed
    /\ NoEntryResolves(book)
    /\ Len(ChosenEntries(book)) >= 2

\* The ordered entries of the book's navigation document, sorted as the
\* slicing loop reads them.
OrderedEntries ==
    SortByPosition(ParseNavigation(doc_content, ChooseNavItem(book),
                                   book.spine).ordered_entries)

\* The markup between the i-th ordered entry's anchor and the next one's.
OwnSlice(entries, i) ==
    _slice_spine_html(doc_content, entries[i].doc_href, entries[i].position,
                      IF i < Len(entries) THEN entries[i + 1].doc_href ELSE None,
                      IF i < Len(entries) THEN entries[i + 1].position
                      ELSE NoneInt,
                      book.spine, TRUE)

\* The i-th ordered entry is the only one with its src, and its own slice
\* is empty or blank.
EmptySliceEntry(entries, i) ==
    /\ \A j \in 1..Len(entries) : entries[j].src = entries[i].src => j = i
    /\ Strip(OwnSlice(entries, i)) = <<>>

\* get_chapters(include_text=True) has returned a list.
ChaptersWithText ==
    ret.op = "get_chapters" /\ ~ret.raised /\ ret.include_text

\* C14: a navigation entry whose slice between its own anchor and the next
\* ordered anchor is empty or blank still yields a chapter, and every chapter
\* of that entry has the empty string as its text and 0 as its char_count.
C14_EmptySliceGivesEmptyChapter ==
    ChaptersWithText =>
        \A i \in 1..Len(OrderedEntries) :
            EmptySliceEntry(OrderedEntries, i) =>
                /\ \E k \in 1..Len(ret.val) :
                      ret.val[k].id = OrderedEntries[i].src
                /\ \A k \in 1..Len(ret.val) :
                      ret.val[k].id = OrderedEntries[i].src =>
                          ret.val[k].text = <<>> /\ ret.val[k].char_count = 0

\* C15: whatever the parser's state and the options deduplicate_chapter_titles,
\* skip_toc and include_chapter_title, extract_chapters(None) returns the
\* text that extract_chapters(ids) returns for ids the ids of all chapters of
\* get_chapters(), in list order.
C15_AllIdsAsNone ==
    [][(ret'.op = "extract_chapters" /\ ret'.chapter_ids.is_none) =>
          \E got \in {get_chapters(book, Self, TRUE)} :
              \/ got.raised
              \/ \E by_ids \in {extract_chapters(
                                    book, got.self,
                                    [is_none |-> FALSE,
                                     list |-> ChapterIds(got.val)],
                                    ret'.deduplicate_chapter_titles,
                                    ret'.skip_toc,
                                    ret'.include_chapter_title)} :
                    /\ ~ret'.raised
                    /\ ~by_ids.raised
                    /\ by_ids.val = ret'.val]_vars

\* extract_chapters(None) has returned text for a book with two chapters of
\* one id.
C15_Witness ==
    /\ ret.op = "extract_chapters"
    /\ ret.chapter_ids.is_none
    /\ ~ret.raised
    /\ ret.val # <<>>
    /\ \E i, j \in 1..Len(processed_nav_structure) :
          i < j /\ processed_nav_structure[i].src = processed_nav_structure[j].src

\* The chapters but for their texts.
WithoutTexts(chapters) ==
    [k \in 1..Len(chapters) |-> [chapters[k] EXCEPT !.text = <<>>]]

\* C16: once a get_chapters() call has returned, no later call of
\* get_chapters, extract_chapters, get_pages, extract_pages or has_page_list
\* processes the navigation again (the parser stays processed, what the
\* processing stored does not change, and the title cache it would reset is
\* kept), and every get_chapters call returns the first list: the same ids,
\* titles, levels, parents and lengths, the same texts when texts are asked
\* for as in the first call, and at most one chapter for the content before
\* the first entry.
C16_NavigationComputedOnce ==
    [][FirstChapters.known =>
          /\ _nav_processed /\ _nav_processed'
          /\ UNCHANGED <<doc_content, content_texts, content_lengths,
                         processed_nav_structure>>
          /\ (_upper_title_cache.cached =>
                 _upper_title_cache' = _upper_title_cache)
          /\ (ret'.op = "get_chapters" =>
                 /\ ~ret'.raised
                 /\ WithoutTexts(ret'.val) = WithoutTexts(FirstChapters.val)
                 /\ (ret'.include_text = FirstChapters.include_text =>
                        ret'.val = FirstChapters.val)
                 /\ Cardinality({k \in 1..Len(ret'.val) :
                                   ret'.val[k].id = PrefixSrc}) <= 1)]_vars

\* A get_chapters call later than the first has returned, after calls that
\* looked for the page list and filled the title cache, on a book with
\* content before the first entry.
C16_Witness ==
    /\ ret.op = "get_chapters"
    /\ ret.first.known
    /\ ret.include_text /\ ~ret.first.include_text
    /\ _page_list_nav_checked
    /\ _upper_title_cache.cached
    /\ \E k \in 1..Len(ret.val) :
          ret.val[k].id = PrefixSrc /\ ret.val[k].text # <<>>

\* parse_chapter_range has returned a list.
RangeParsed == ret.op = "parse_chapter_range" /\ ~ret.raised

\* The list without the elements that an earlier place holds.
RECURSIVE FirstMentions(_)
FirstMentions(list) ==
    IF list = <<>> THEN <<>>
    ELSE LET before == FirstMentions(SubSeq(list, 1, Len(list) - 1))
             last == list[Len(list)]
         IN IF \E i \in 1..Len(before) : before[i] = last THEN before
            ELSE Append(before, last)

\* The 0-based indices a range string mentions, part after part, those of a
\* range from its start to its end.
RECURSIVE Mentions(_)
Mentions(parts) ==
    IF parts = <<>> THEN <<>>
    ELSE sorted(PartIndices(Head(parts)).indices) \o Mentions(Tail(parts))

\* C17: the list parse_chapter_range returns holds the 0-based indices in
\* the order in which the range string first mentions them, each once.
C17_InputOrderPreserved ==
    RangeParsed =>
        ret.val = FirstMentions(Mentions(Split(ret.range_str, ",")))

\* The part is a range "a-b" with a greater than b.
ReversedPart(part) ==
    LET stripped == Strip(part)
        dash == FirstOf(stripped, "-")
        a == int(SubSeq(stripped, 1, dash - 1))
        b == int(SubSeq(stripped, dash + 1, Len(stripped)))
    IN dash # 0 /\ ~a.raised /\ ~b.raised /\ a.val > b.val

\* C18: parse_chapter_range raises ValueError, and returns no list, when a
\* part of the range string is a range "a-b" with a greater than b.
C18_ReversedRangeRejected ==
    ret.op = "parse_chapter_range" =>
        ((\E i \in 1..Len(Split(ret.range_str, ",")) :
             ReversedPart(Split(ret.range_str, ",")[i]))
            => ret.raised)

\* The file holds a JSON document with bookmarks.
ValidBookmarkFile(file) ==
    file.exists /\ file.json /\ "bookmarks" \in DOMAIN file.data

\* The bookmark set after the save or the successful delete of the step.
NewBookmarkSet ==
    IF ret'.op = "save"
    THEN [k \in DOMAIN _bookmarks \cup {_normalize_path(ret'.epub_path)} |->
             IF k = _normalize_path(ret'.epub_path) THEN ret'.bookmark
             ELSE _bookmarks[k]]
    ELSE [k \in DOMAIN _bookmarks \ {_normalize_path(ret'.epub_path)} |->
             _bookmarks[k]]

\* C19: after a save(), or a delete() that returns True, that finds the
\* bookmark file, the backup holds what the bookmark file held just before
\* and the bookmark file holds the new bookmark set; a manager opened on a
\* bookmark file that is not JSON, with a backup that is, has the bookmarks
\* of the backup.
C19_BackupHoldsPreviousFile ==
    [][/\ ((\/ ret'.op = "save"
            \/ (ret'.op = "delete" /\ ret'.val))
           /\ files.bookmark_file.exists)
          => /\ files'.backup = files.bookmark_file
             /\ ValidBookmarkFile(files'.bookmark_file)
             /\ files'.bookmark_file.data.bookmarks = NewBookmarkSet
             /\ _bookmarks' = NewBookmarkSet
       /\ (/\ ret'.op = "BookmarkManager"
           /\ files.bookmark_file = NotJson
           /\ ValidBookmarkFile(files.backup))
          => _bookmarks' = files.backup.data.bookmarks]_vars

\* A manager opened on a bookmark file that is not JSON has saved: the
\* backup is that file, and the bookmark file holds the bookmarks recovered
\* and the one saved.
C19_Witness ==
    /\ ret.op = "save"
    /\ files.backup = NotJson
    /\ ValidBookmarkFile(files.bookmark_file)
    /\ Cardinality(DOMAIN files.bookmark_file.data.bookmarks) = 2

\* The targets of the entries of the book's navigation document that name
\* a document which is not in the spine.
UnmatchedTargets(b) ==
    {src \in EntryTargets(ChosenEntries(b), ChooseNavItem(b).nav_type) :
        Truthy(src) /\ ~InSpine(b, src)}

\* C20: in a NAV document and in an NCX, an entry whose document is not in
\* the spine is not among the ordered entries and is a chapter of
\* get_chapters() all the same, with the empty string as its text.
C20_UnmatchedEntryKept ==
    (ret.op = "get_chapters" /\ ~ret.raised) =>
        \A src \in UnmatchedTargets(book) :
            /\ \A i \in 1..Len(OrderedEntries) : OrderedEntries[i].src # src
            /\ \E k \in 1..Len(ret.val) :
                  ret.val[k].id = src /\ ret.val[k].text = <<>>

\* The target of an entry of a navigation document, None without one.
EntrySrc(entry, nav_type) ==
    IF nav_type = "html"
    THEN (IF entry.has_href THEN entry.href ELSE None)
    ELSE (IF entry.has_src THEN entry.src ELSE None)

\* One of the entries, or one of their descendants, has content: its
\* target names a document of the spine.
RECURSIVE ContentAmong(_, _, _)
ContentAmong(b, entries, nav_type) ==
    \E i \in 1..Len(entries) :
        \/ InSpine(b, EntrySrc(entries[i], nav_type))
        \/ ContentAmong(b, entries[i].children, nav_type)

\* The entries without a src, among the entries and their descendants, that
\* have a descendant with content, counted.
RECURSIVE SrclessWithContentBelow(_, _, _)
SrclessWithContentBelow(b, entries, nav_type) ==
    IF entries = <<>> THEN 0
    ELSE (IF /\ ~Truthy(EntrySrc(Head(entries), nav_type))
             /\ ContentAmong(b, Head(entries).children, nav_type)
          THEN 1 ELSE 0)
         + SrclessWithContentBelow(b, Head(entries).children, nav_type)
         + SrclessWithContentBelow(b, Tail(entries), nav_type)

\* The chapters of entries without a src: their id is chapter_n.
SrclessChapters(chapters) ==
    {k \in 1..Len(chapters) :
        chapters[k].id \in {ChapterId(None, n) : n \in 0..Len(chapters)}}

\* C21: in a NAV document and in an NCX, the entries without a src that
\* get_chapters() returns are those with at least one descendant with
\* content; an entry without a src and without such a descendant is not
\* among the chapters.
C21_SrclessEntryNeedsContent ==
    (ret.op = "get_chapters" /\ ~ret.raised) =>
        Cardinality(SrclessChapters(ret.val))
            = SrclessWithContentBelow(book, ChosenEntries(book),
                                      ChooseNavItem(book).nav_type)

\* The link and the name of the spine document differ, and are equal once
\* one of them is percent-decoded.
EqualWhenDecoded(link, name) ==
    link # name /\ (unquote(link) = name \/ link = unquote(name))

\* The entry of the target is resolved to the k-th document of the spine:
\* it is an ordered entry with that document, the document's index and the
\* offset of its anchor in the document, and its chapter has text when the
\* document has.
ResolvedTo(src, k) ==
    /\ book.spine[k] \in DOMAIN doc_content
    /\ \E i \in 1..Len(OrderedEntries) :
          /\ OrderedEntries[i].src = src
          /\ OrderedEntries[i].doc_order = k - 1
          /\ OrderedEntries[i].doc_href = book.spine[k]
          /\ OrderedEntries[i].position =
                 _find_position_robust(doc_content, book.spine[k],
                                       FragmentOf(src))
    /\ (ret.include_text /\ Strip(get_text(doc_content[book.spine[k]])) # <<>>)
          => \E c \in 1..Len(ret.val) :
                ret.val[c].id = src /\ ret.val[c].text # <<>>

\* C22: a navigation link that equals the name of a spine document only
\* after one of the two is percent-decoded resolves to that document: the
\* entry has the document's spine index, its doc_href is the key of the
\* document in the cached contents, its anchor is located in the document
\* and its chapter text is taken from it.
C22_EncodingMismatchTolerated ==
    ret.op = "get_chapters" =>
        \A src \in EntryTargets(ChosenEntries(book),
                                ChooseNavItem(book).nav_type) :
            \A k \in 1..Len(book.spine) :
                (Truthy(src) /\ EqualWhenDecoded(BaseHref(src), book.spine[k]))
                    => (~ret.raised /\ ResolvedTo(src, k))

\* The chapters of the book, as get_chapters() returns them.
ChaptersOfBook ==
    Only({IF got.raised THEN <<>> ELSE got.val :
            got \in {get_chapters(book, Self, TRUE)}})

\* The entries of the page list with their document and position, in the
\* order of the pages.
PagePositions ==
    Only({SortedPageEntries(doc_content,
                            ParsePageEntries(nav.page_list, nav.nav_type),
                            book.spine) :
            nav \in {SearchPageListNav(book)}})

\* The position of the anchor of a chapter in its document.
AnchorPosition(chapter) ==
    _find_position_robust(doc_content, BaseHref(chapter.id),
                          FragmentOf(chapter.id))

\* The chapters anchored in the document at or before the position: their
\* indices in the list of chapters.
AnchoredAtOrBefore(chapters, doc_href, position) ==
    {k \in 1..Len(chapters) :
        /\ chapters[k].id \notin {"", PrefixSrc}
        /\ BaseHref(chapters[k].id) \in DOMAIN doc_content
        /\ BaseHref(chapters[k].id) = doc_href
        /\ AnchorPosition(chapters[k]) <= position}

\* C23: every page of the page list is assigned the chapter with the
\* greatest position at or before the position of the page among the
\* chapters anchored in the document of the page, and no chapter (None,
\* None) when no chapter is anchored in that document at or before the page.
C23_PageChapterIsLastAtOrBefore ==
    (PagesReturned /\ PageListEntries # <<>>)
    => \A i \in 1..Len(ret.val) :
          LET chapters == ChaptersOfBook
              before == AnchoredAtOrBefore(chapters, PagePositions[i].doc_href,
                                           PagePositions[i].position)
          IN IF before = {}
             THEN /\ ret.val[i].chapter_id = None
                  /\ ret.val[i].chapter_title = NoneText
             ELSE \E k \in before :
                     /\ \A j \in before :
                           AnchorPosition(chapters[j]) <= AnchorPosition(chapters[k])
                     /\ ret.val[i].chapter_id = chapters[k].id
                     /\ ret.val[i].chapter_title = chapters[k].title

\* C23 witness: two chapters are anchored in the first document, at 0 and
\* at its anchor; the page at the anchor is assigned the second chapter, and
\* a page of the second document no chapter.
C23_Witness ==
    /\ PagesReturned
    /\ Len(PageListEntries) = 2
    /\ Len(ret.val) = 2
    /\ Len(ChaptersOfBook) = 2
    /\ ChaptersOfBook[1].id = "d1" /\ ChaptersOfBook[2].id = "d1#a"
    /\ AnchorPosition(ChaptersOfBook[1]) < AnchorPosition(ChaptersOfBook[2])
    /\ PagePositions[1].doc_href = "d1"
    /\ PagePositions[1].position = AnchorPosition(ChaptersOfBook[2])
    /\ ret.val[1].chapter_id = "d1#a"
    /\ PagePositions[2].doc_href = "d2"
    /\ ret.val[2].chapter_id = None

\* The first line of the text given to _remove_duplicate_title_line,
\* without the white space around.
FirstLineGiven == Strip(Split1(ret.text)[1])

\* _remove_duplicate_title_line was called on a text and a title that no
\* tier before the normalized one matches: the first line is not the title
\* in any case and does not begin with the title followed by a space or by
\* separators and more text.
NormalizedTierReached ==
    /\ ret.op = "_remove_duplicate_title_line"
    /\ ret.text # <<>>
    /\ Strip(ret.title) # <<>>
    /\ Lower(FirstLineGiven) # Lower(Strip(ret.title))
    /\ ~StartsWith(Lower(FirstLineGiven), Lower(Strip(ret.title)) \o <<" ">>)
    /\ ~SeparatorMatch(FirstLineGiven, Strip(ret.title)).matched

\* The first line ends with ".", "!" or "?".
SentenceTerminated(line) ==
    line # <<>> /\ line[Len(line)] \in {".", "!", "?"}

\* The first line starts with a structural heading word.
StartsWithHeadingWord(line) ==
    line # <<>> /\ Lower(line)[1] \in {"chapter", "part", "book", "section", "act"}

\* The text without its first line.
FirstLineRemoved(text) ==
    IF FirstNewline(text) = 0 THEN <<>>
    ELSE SubSeq(text, FirstNewline(text) + 1, Len(text))

KnownTitles ==
    {Upper(book.title)}
        \cup {Upper(ChaptersOfBook[i].title) : i \in 1..Len(ChaptersOfBook)}

\* The lines of the text that are a known title once trimmed, in any case:
\* their indices.
StandaloneTitleLines(text) ==
    Only({{i \in 1..Len(lines) : Upper(Strip(lines[i])) \in known} :
            lines \in {SplitLines(text)}, known \in {KnownTitles}})

\* _is_toc_or_front_matter has returned for a page with a text and a
\* chapter title that is no front-matter keyword.
FrontMatterAsked ==
    /\ ret.op = "_is_toc_or_front_matter"
    /\ ~ret.raised
    /\ ret.text # <<>>
    /\ Upper(ret.chapter_title) \notin front_matter_keywords

\* C25 as stated: the page is flagged exactly when at least 3 of its lines
\* are a known title.
C25_FlaggedFromThreeTitleLines ==
    FrontMatterAsked
    => (ret.val <=> Cardinality(StandaloneTitleLines(ret.text)) >= 3)

\* C25: a page with a text whose chapter title is no front-matter keyword
\* is flagged exactly when more than 3 of its lines, trimmed, are a known
\* title of the book in any case.
C25_FlaggedFromFourTitleLines ==
    FrontMatterAsked
    => (ret.val <=> Cardinality(StandaloneTitleLines(ret.text)) > 3)

\* C25 witness: a page of the chapter "T" with four title lines, one of
\* them in lower case with a space after it, is flagged.
C25_Witness ==
    /\ FrontMatterAsked
    /\ ret.chapter_title = NavTitle
    /\ ret.text = <<"T", "\n", "u", " ", "\n", "B", "\n", "T", "\n", "T">>
    /\ ret.val

\* The known titles the line starts with, a space following.
TitlesLeading(line, known) ==
    {title \in known : StartsWith(Upper(Strip(line)), title \o <<" ">>)}

\* The lines that are chapter-title hits: a known title, or a known title
\* followed by a space and other text; their indices.
TitleHits(lines, known) ==
    {i \in 1..Len(lines) :
        \/ Upper(Strip(lines[i])) \in known
        \/ TitlesLeading(lines[i], known) # {}}

\* There are at least 5 hits, less than 3 lines apart on average.
DenseListing(hits) ==
    /\ Cardinality(hits) >= 5
    /\ \A first \in hits : \A last \in hits :
          last - first < 3 * Cardinality(hits)

\* The text that follows the title on a line that starts with a title.
TrailingText(line, known) ==
    LET title == CHOOSE t \in TitlesLeading(line, known) : TRUE
    IN LStrip(PyFrom(Strip(line), Len(title)))

\* The lines from the i-th on without the hits, the trailing text of the
\* last hit kept when it is followed by text.
RECURSIVE WithoutHits(_, _, _, _)
WithoutHits(lines, hits, known, i) ==
    IF i > Len(lines) THEN <<>>
    ELSE (IF i \notin hits THEN <<lines[i]>>
          ELSE IF /\ \A j \in hits : j <= i
                  /\ Upper(Strip(lines[i])) \notin known
          THEN <<TrailingText(lines[i], known)>>
          ELSE <<>>)
         \o WithoutHits(lines, hits, known, i + 1)

\* The lines that are not blank, in order.
NonBlank(lines) == SelectSeq(lines, LAMBDA line : Strip(line) # <<>>)

\* _strip_toc_from_page has returned for a page with a text.
StripTocAsked ==
    /\ ret.op = "_strip_toc_from_page"
    /\ ~ret.raised
    /\ ret.text # <<>>

\* C26: _strip_toc_from_page returns the text unchanged unless at least 5
\* lines are chapter-title hits less than 3 lines apart on average; when it
\* strips, the lines of the result that are not blank are those of the
\* page without the hits, in order, with the trailing text of the last hit.
C26_OnlyTitleLinesStripped ==
    StripTocAsked
    => Only({IF ~DenseListing(hits) THEN ret.val = ret.text
             ELSE NonBlank(SplitLines(ret.val))
                    = NonBlank(WithoutHits(lines, hits, KnownTitles, 1)) :
               lines \in {SplitLines(ret.text)},
               hits \in {TitleHits(SplitLines(ret.text), KnownTitles)}})

\* A manager was constructed after a program was interrupted in _save.
OpenedAfterInterrupt ==
    ret.op = "BookmarkManager" /\ ret.after # "none"

\* C27: a manager constructed after _save was interrupted between two of
\* its file operations holds the complete bookmark set of before the save
\* or the complete new one.
C27_InterruptedSaveLosesNothing ==
    OpenedAfterInterrupt => _bookmarks \in {ret.previous, ret.new}

\* C28: the ids of the chapters of one get_chapters() result are pairwise
\* distinct, so that an id designates one chapter of the list.
C28_ChapterIdsDistinct ==
    (ret.op = "get_chapters" /\ ~ret.raised)
    => \A i \in 1..Len(ret.val) : \A j \in 1..Len(ret.val) :
          i # j => ret.val[i].id # ret.val[j].id

\* C29: every synthetic page has a text that holds at least one sentence,
\* and the pages are numbered "1", "2", ... in order.
C29_SyntheticPagesHaveContent ==
    PagesGenerated
    => \A i \in 1..Len(ret.val) :
          /\ ret.val[i].text # <<>>
          /\ SentenceUnits(ret.val[i].text) # <<>>
          /\ ret.val[i].page_number = <<ToString(i)>>

\* The pages are taken from the page list.
FromPageList(pages) ==
    /\ pages # <<>>
    /\ \A i \in 1..Len(pages) : pages[i].source = "EPUB_PAGE_LIST"

\* What has_page_list() answers on the parser as it is.
HasPageListNow == has_page_list(book, Self).val

\* C30: has_page_list() is true exactly when get_pages() returns the pages
\* of the page list, and it answers the same on every call: after
\* get_pages() its answer tells where the pages came from, and its answer
\* tells where the pages of the next get_pages() come from and is the
\* answer of the next has_page_list().
C30_HasPageListAgreesWithGetPages ==
    /\ (ret.op = "get_pages" /\ ~ret.raised)
       => (HasPageListNow <=> FromPageList(ret.val))
    /\ ret.op = "has_page_list"
       => /\ HasPageListNow = ret.val
          /\ \A pages \in {get_pages(book, Self, DefaultPageSize, FALSE)} :
                ~pages.raised => (ret.val <=> FromPageList(pages.val))

====
